---- MODULE Spec2Model ----
(***************************************************************************)
(* A model of the go-workq client (client.go, job.go, error.go): the       *)
(* command encoders, the response parser on top of a buffered reader, and  *)
(* the connection the client reads from and writes to.                     *)
(*                                                                         *)
(* A byte is a one-character string; a byte string ([]byte or string in    *)
(* the source) is a sequence of bytes.  "\r" and "\n" are CR and LF, "NUL" *)
(* is the zero byte, "xC3" and "xA9" are the two bytes of a multi-byte     *)
(* UTF-8 character.                                                        *)
(***************************************************************************)
EXTENDS Integers, Sequences, FiniteSets, TLC

VARIABLES conn, rdr, pc, cur, ret

vars == <<conn, rdr, pc, cur, ret>>

(***************************************************************************)
(* Constants of client.go                                                  *)
(***************************************************************************)
CR == "\r"
LF == "\n"
SP == " "

maxDataBlock == 1048576
termLen == 2
crnl == <<CR, LF>>
payloadKey == <<"p", "a", "y", "l", "o", "a", "d", SP>>

\* bufio.NewReader(conn) allocates a buffer of bufio's default size.
BufSize == 4096

(***************************************************************************)
(* Byte-string helpers (package strings, slices)                           *)
(***************************************************************************)
Min(a, b) == IF a < b THEN a ELSE b

Take(s, n) == SubSeq(s, 1, Min(n, Len(s)))

Drop(s, n) == SubSeq(s, n + 1, Len(s))

\* Index of the first occurrence of byte b in s, 0 when there is none.
IndexOf(s, b) ==
    IF \E i \in 1..Len(s) : s[i] = b
    THEN CHOOSE i \in 1..Len(s) : s[i] = b /\ \A k \in 1..(i - 1) : s[k] # b
    ELSE 0

RECURSIVE Split(_)
\* strings.Split(s, " ")
Split(s) ==
    LET i == IndexOf(s, SP)
    IN  IF i = 0 THEN <<s>> ELSE <<Take(s, i - 1)>> \o Split(Drop(s, i))

\* strings.SplitN(s, " ", 2)
SplitN2(s) ==
    LET i == IndexOf(s, SP)
    IN  IF i = 0 THEN <<s>> ELSE <<Take(s, i - 1), Drop(s, i)>>

RECURSIVE Join(_)
\* strings.Join(elems, " ")
Join(elems) ==
    IF elems = <<>> THEN <<>>
    ELSE IF Len(elems) = 1 THEN elems[1]
    ELSE elems[1] \o <<SP>> \o Join(Tail(elems))

(***************************************************************************)
(* Decimal numbers (fmt %d, package strconv)                               *)
(*                                                                         *)
(* A parsed number is a record [v, big]: big = 0 and v its value when the  *)
(* magnitude is below 10^9; otherwise v = 0 and big tells where the value  *)
(* lies: 1 for 10^9 .. 2^63-1, 2 for 2^63 .. 2^64-1 (a uint64 that does    *)
(* not fit an int64), -1 for a negative number below -10^9 or a uint64     *)
(* wrapped by the conversion to int.                                       *)
(***************************************************************************)
Digits == <<"0", "1", "2", "3", "4", "5", "6", "7", "8", "9">>

IsDigit(c) == \E d \in 1..10 : Digits[d] = c

DigitVal(c) == (CHOOSE d \in 1..10 : Digits[d] = c) - 1

RECURSIVE Utoa(_)
Utoa(n) ==
    IF n < 10 THEN <<Digits[n + 1]>>
    ELSE Utoa(n \div 10) \o <<Digits[(n % 10) + 1]>>

\* fmt.Sprintf("%d", n)
Itoa(n) == IF n < 0 THEN <<"-">> \o Utoa(0 - n) ELSE Utoa(n)

RECURSIVE StripZeros(_)
StripZeros(s) ==
    IF s # <<>> /\ Head(s) = "0" THEN StripZeros(Tail(s)) ELSE s

RECURSIVE DecVal(_)
DecVal(s) ==
    IF s = <<>> THEN 0
    ELSE 10 * DecVal(SubSeq(s, 1, Len(s) - 1)) + DigitVal(s[Len(s)])

RECURSIVE LexLeq(_, _)
LexLeq(a, b) ==
    IF a = <<>> THEN TRUE
    ELSE IF DigitVal(Head(a)) < DigitVal(Head(b)) THEN TRUE
    ELSE IF DigitVal(Head(a)) > DigitVal(Head(b)) THEN FALSE
    ELSE LexLeq(Tail(a), Tail(b))

\* a <= b for digit strings without leading zeros
DecLeq(a, b) ==
    \/ Len(a) < Len(b)
    \/ Len(a) = Len(b) /\ LexLeq(a, b)

MaxUint8 == <<"2", "5", "5">>
MaxUint32 == <<"4", "2", "9", "4", "9", "6", "7", "2", "9", "5">>
MaxInt32 == <<"2", "1", "4", "7", "4", "8", "3", "6", "4", "7">>
MinInt32Mag == <<"2", "1", "4", "7", "4", "8", "3", "6", "4", "8">>
MaxInt64 == <<"9", "2", "2", "3", "3", "7", "2", "0", "3", "6",
              "8", "5", "4", "7", "7", "5", "8", "0", "7">>
MinInt64Mag == <<"9", "2", "2", "3", "3", "7", "2", "0", "3", "6",
                 "8", "5", "4", "7", "7", "5", "8", "0", "8">>
MaxUint64 == <<"1", "8", "4", "4", "6", "7", "4", "4", "0", "7",
               "3", "7", "0", "9", "5", "5", "1", "6", "1", "5">>

MaxUint(bitSize) ==
    IF bitSize = 8 THEN MaxUint8
    ELSE IF bitSize = 32 THEN MaxUint32
    ELSE MaxUint64

Num(v) == [v |-> v, big |-> 0]

\* The value of a digit string without leading zeros, at most MaxUint64.
Magnitude(m) ==
    IF Len(m) <= 9 THEN Num(DecVal(m))
    ELSE IF DecLeq(m, MaxInt64) THEN [v |-> 0, big |-> 1]
    ELSE [v |-> 0, big |-> 2]

Negate(n) ==
    IF n.big = 0 THEN Num(0 - n.v) ELSE [v |-> 0, big |-> -1]

\* strconv.ParseUint(s, 10, bitSize): digits only, no sign, within the
\* range of the bit size.  err is TRUE for a *strconv.NumError.
ParseUint(s, bitSize) ==
    IF s = <<>> \/ \E i \in 1..Len(s) : ~IsDigit(s[i])
    THEN [err |-> TRUE, n |-> Num(0)]
    ELSE LET m == StripZeros(s)
         IN  IF ~DecLeq(m, MaxUint(bitSize))
             THEN [err |-> TRUE, n |-> Num(0)]
             ELSE [err |-> FALSE, n |-> Magnitude(m)]

\* strconv.ParseInt(s, 10, bitSize): an optional sign, then digits.
ParseInt(s, bitSize) ==
    LET signed == s # <<>> /\ Head(s) \in {"+", "-"}
        neg == s # <<>> /\ Head(s) = "-"
        d == IF signed THEN Tail(s) ELSE s
        m == StripZeros(d)
        maxpos == IF bitSize = 32 THEN MaxInt32 ELSE MaxInt64
        maxneg == IF bitSize = 32 THEN MinInt32Mag ELSE MinInt64Mag
    IN  IF d = <<>> \/ \E i \in 1..Len(d) : ~IsDigit(d[i])
        THEN [err |-> TRUE, n |-> Num(0)]
        ELSE IF ~DecLeq(m, IF neg THEN maxneg ELSE maxpos)
        THEN [err |-> TRUE, n |-> Num(0)]
        ELSE [err |-> FALSE,
              n |-> IF neg THEN Negate(Magnitude(m)) ELSE Magnitude(m)]

\* strconv.Atoi(s)
Atoi(s) == ParseInt(s, 64)

\* int(u) for a uint64 u: values from 2^63 on wrap to negative numbers.
IntOfUint64(n) == IF n.big = 2 THEN [v |-> 0, big |-> -1] ELSE n

(***************************************************************************)
(* Errors (client.go 19-24, error.go).  An error is a record; Nil is Go's  *)
(* nil error.  Blocked is not an error of the program: it stands for a     *)
(* call that has not returned because a read on the connection blocks.     *)
(***************************************************************************)
Nil == [kind |-> "nil", code |-> <<>>, text |-> <<>>]

ErrMalformed == [kind |-> "ErrMalformed", code |-> <<>>, text |-> <<>>]

ErrPayloadMustFollowSize ==
    [kind |-> "ErrPayloadMustFollowSize", code |-> <<>>, text |-> <<>>]

NewNetError(text) == [kind |-> "NetError", code |-> <<>>, text |-> text]

NewResponseError(code, text) ==
    [kind |-> "ResponseError", code |-> code, text |-> text]

\* The *strconv.NumError that strconv.ParseUint returns.
NumError == [kind |-> "NumError", code |-> <<>>, text |-> <<>>]

Blocked == [kind |-> "blocked", code |-> <<>>, text |-> <<>>]

\* io.EOF.Error()
EOFText == <<"E", "O", "F">>

(***************************************************************************)
(* The connection and the buffered reader.                                 *)
(*                                                                         *)
(* A reader state r is [buf, in, eof]: buf holds the bytes bufio has read  *)
(* from the connection and not yet handed out; in is the sequence of       *)
(* chunks that the next reads on the connection return, one chunk (or the  *)
(* part of it that fits) per read; once in is empty a read returns io.EOF  *)
(* when eof holds and blocks otherwise.                                    *)
(***************************************************************************)
\* conn.Read(p) with len(p) = max > 0
ConnRead(r, max) ==
    IF r.in = <<>>
    THEN [data |-> <<>>, st |-> IF r.eof THEN "EOF" ELSE "block", r |-> r]
    ELSE LET c == Head(r.in)
             k == Min(max, Len(c))
         IN  [data |-> Take(c, k),
              st |-> "ok",
              r |-> [r EXCEPT !.in = IF k = Len(c) THEN Tail(r.in)
                                     ELSE <<Drop(c, k)>> \o Tail(r.in)]]

\* The rest of bufio.Reader.Read when the buffer was empty: c is what the
\* one read on the connection returned.
BufReadFill(c, n) ==
    IF c.st = "block"
    THEN [data |-> <<>>, err |-> FALSE, blk |-> TRUE, r |-> c.r]
    ELSE IF c.st = "EOF"
    THEN [data |-> <<>>, err |-> TRUE, blk |-> FALSE, r |-> c.r]
    ELSE [data |-> Take(c.data, n), err |-> FALSE, blk |-> FALSE,
          r |-> [c.r EXCEPT !.buf = Drop(c.data, n)]]

\* bufio.Reader.Read(p) with len(p) = n > 0: hands out buffered bytes when
\* there are any, and otherwise the bytes of at most one read on the
\* connection, so it may return fewer than n bytes.
BufRead(r, n) ==
    IF r.buf # <<>>
    THEN [data |-> Take(r.buf, n), err |-> FALSE, blk |-> FALSE,
          r |-> [r EXCEPT !.buf = Drop(r.buf, n)]]
    ELSE BufReadFill(ConnRead(r, IF n >= BufSize THEN n ELSE BufSize), n)

RECURSIVE ReadAtLeastFrom(_, _, _), ReadAtLeastStep(_, _, _)
\* The loop of io.ReadAtLeast: for n < min && err == nil
ReadAtLeastFrom(r, acc, min) ==
    IF Len(acc) >= min
    THEN [data |-> acc, err |-> FALSE, blk |-> FALSE, r |-> r]
    ELSE ReadAtLeastStep(BufRead(r, min - Len(acc)), acc, min)

\* x is what one Read of the loop returned
ReadAtLeastStep(x, acc, min) ==
    IF x.blk \/ x.err
    THEN [data |-> acc, err |-> x.err, blk |-> x.blk, r |-> x.r]
    ELSE ReadAtLeastFrom(x.r, acc \o x.data, min)

\* io.ReadAtLeast(p.rdr, block, min) with len(block) = min
ReadAtLeast(r, min) == ReadAtLeastFrom(r, <<>>, min)

RECURSIVE ReadBytesFrom(_, _)
ReadBytesFrom(r, acc) ==
    LET i == IndexOf(r.buf, LF)
    IN  IF i > 0
        THEN [line |-> acc \o Take(r.buf, i), st |-> "ok",
              r |-> [r EXCEPT !.buf = Drop(r.buf, i)]]
        ELSE IF r.in = <<>>
        THEN [line |-> acc \o r.buf,
              st |-> IF r.eof THEN "EOF" ELSE "block",
              r |-> [r EXCEPT !.buf = <<>>]]
        ELSE IF Len(r.buf) >= BufSize
        THEN ReadBytesFrom([r EXCEPT !.buf = <<>>], acc \o r.buf)
        ELSE ReadBytesFrom(
                 [r EXCEPT !.buf = @ \o Take(Head(r.in), BufSize - Len(@)),
                           !.in = ConnRead(r, BufSize - Len(r.buf)).r.in],
                 acc)

\* bufio.Reader.ReadBytes('\n'): reads until the first LF, over as many
\* reads on the connection as it takes.
ReadBytes(r) == ReadBytesFrom(r, <<>>)

(***************************************************************************)
(* responseParser (client.go 339-703).  An operator named ...Of or ...With *)
(* is the part of the function after the call whose result it takes.       *)
(***************************************************************************)
\* readLine after p.rdr.ReadBytes returned rb
\* readLine cutting the last two bytes of the line whatever they are
readLineOf_anyterm(rb) ==
    IF rb.st = "block" THEN [line |-> <<>>, err |-> Blocked, r |-> rb.r]
    ELSE IF rb.st = "EOF"
    THEN [line |-> <<>>, err |-> NewNetError(EOFText), r |-> rb.r]
    ELSE IF Len(rb.line) < termLen
    THEN [line |-> <<>>, err |-> ErrMalformed, r |-> rb.r]
    ELSE [line |-> Take(rb.line, Len(rb.line) - termLen), err |-> Nil,
          r |-> rb.r]

readLineOf(rb) ==
    IF rb.st = "block" THEN [line |-> <<>>, err |-> Blocked, r |-> rb.r]
    ELSE IF rb.st = "EOF"
    THEN [line |-> <<>>, err |-> NewNetError(EOFText), r |-> rb.r]
    ELSE IF Len(rb.line) < termLen
    THEN [line |-> <<>>, err |-> ErrMalformed, r |-> rb.r]
    ELSE IF rb.line[Len(rb.line) - termLen + 1] # CR
    THEN [line |-> <<>>, err |-> ErrMalformed, r |-> rb.r]
    ELSE [line |-> Take(rb.line, Len(rb.line) - termLen), err |-> Nil,
          r |-> rb.r]

readLine(r) == readLineOf(ReadBytes(r))

\* size < 0 || size > maxDataBlock
BadBlockSize(size) ==
    size.big # 0 \/ size.v < 0 \/ size.v > maxDataBlock

\* readBlock after p.rdr.Read(b) returned b for the terminator; block is
\* the block read before it
readBlockTerm(block, b) ==
    IF b.blk THEN [block |-> <<>>, err |-> Blocked, r |-> b.r]
    ELSE IF b.err \/ Len(b.data) # termLen \/ b.data # crnl
    THEN [block |-> <<>>, err |-> ErrMalformed, r |-> b.r]
    ELSE [block |-> block, err |-> Nil, r |-> b.r]

\* readBlock after io.ReadAtLeast returned a
readBlockData(size, a) ==
    IF a.blk THEN [block |-> <<>>, err |-> Blocked, r |-> a.r]
    ELSE IF a.err \/ Len(a.data) # size.v
    THEN [block |-> <<>>, err |-> ErrMalformed, r |-> a.r]
    ELSE readBlockTerm(a.data, BufRead(a.r, termLen))

readBlock(r, size) ==
    IF BadBlockSize(size)
    THEN [block |-> <<>>, err |-> ErrMalformed, r |-> r]
    ELSE readBlockData(size, ReadAtLeast(r, size.v))

\* errorFromLine after strings.SplitN returned split
\* errorFromLine without the check of an empty text
errorFromSplit_lax(split) ==
    IF Len(split[1]) <= 1 THEN ErrMalformed
    ELSE NewResponseError(Tail(split[1]),
                          IF Len(split) = 2 THEN split[2] ELSE <<>>)

errorFromSplit(split) ==
    IF Len(split[1]) <= 1 THEN ErrMalformed
    ELSE IF Len(split) = 2 /\ Len(split[2]) = 0 THEN ErrMalformed
    ELSE NewResponseError(Tail(split[1]),
                          IF Len(split) = 2 THEN split[2] ELSE <<>>)

errorFromLine(line) == errorFromSplit(SplitN2(line))

OK == <<"O", "K">>

\* parseOk taking every line that begins with "+OK" for a success
parseOkOf_prefix(l) ==
    IF l.err # Nil THEN [err |-> l.err, r |-> l.r]
    ELSE IF Len(l.line) < 3 THEN [err |-> ErrMalformed, r |-> l.r]
    ELSE IF l.line[1] = "+" /\ SubSeq(l.line, 2, 3) = OK
    THEN [err |-> Nil, r |-> l.r]
    ELSE IF l.line[1] # "-" THEN [err |-> ErrMalformed, r |-> l.r]
    ELSE [err |-> errorFromSplit(SplitN2(l.line)), r |-> l.r]

\* parseOk after readLine returned l
parseOkOf(l) ==
    IF l.err # Nil THEN [err |-> l.err, r |-> l.r]
    ELSE IF Len(l.line) < 3 THEN [err |-> ErrMalformed, r |-> l.r]
    ELSE IF l.line[1] = "+" /\ SubSeq(l.line, 2, 3) = OK /\ Len(l.line) = 3
    THEN [err |-> Nil, r |-> l.r]
    ELSE IF l.line[1] # "-" THEN [err |-> ErrMalformed, r |-> l.r]
    ELSE [err |-> errorFromLine(l.line), r |-> l.r]

parseOk(r) == parseOkOf(readLine(r))

\* parseOkWithReply after strconv.Atoi returned c
parseOkCount(l, c) ==
    IF c.err THEN [count |-> Num(0), err |-> ErrMalformed, r |-> l.r]
    ELSE [count |-> c.n, err |-> Nil, r |-> l.r]

\* parseOkWithReply after readLine returned l
parseOkWithReplyOf(l) ==
    IF l.err # Nil THEN [count |-> Num(0), err |-> l.err, r |-> l.r]
    ELSE IF Len(l.line) < 5
    THEN [count |-> Num(0), err |-> ErrMalformed, r |-> l.r]
    ELSE IF l.line[1] = "+" /\ SubSeq(l.line, 2, 3) = OK
    THEN parseOkCount(l, Atoi(Drop(l.line, 4)))
    ELSE IF l.line[1] # "-"
    THEN [count |-> Num(0), err |-> ErrMalformed, r |-> l.r]
    ELSE [count |-> Num(0), err |-> errorFromLine(l.line), r |-> l.r]

parseOkWithReply(r) == parseOkWithReplyOf(readLine(r))

(***************************************************************************)
(* Identifiers and names                                                   *)
(***************************************************************************)
HexChars ==
    {"0", "1", "2", "3", "4", "5", "6", "7", "8", "9",
     "a", "b", "c", "d", "e", "f", "A", "B", "C", "D", "E", "F"}

IsHex(s) == \A i \in 1..Len(s) : s[i] \in HexChars

\* The canonical form xxxxxxxx-xxxx-xxxx-xxxx-xxxxxxxxxxxx
IsCanonicalUUID(s) ==
    /\ Len(s) = 36
    /\ \A i \in {9, 14, 19, 24} : s[i] = "-"
    /\ \A i \in (1..36) \ {9, 14, 19, 24} : s[i] \in HexChars

UrnPrefix == <<"u", "r", "n", ":", "u", "u", "i", "d", ":">>

\* uuid.FromString(s) succeeds: the canonical form, the 32 hexadecimal
\* digits alone, the canonical form in braces, or either after "urn:uuid:".
IsUUID(s) ==
    \/ IsCanonicalUUID(s)
    \/ Len(s) = 32 /\ IsHex(s)
    \/ Len(s) = 38 /\ s[1] = "{" /\ s[38] = "}"
                   /\ IsCanonicalUUID(SubSeq(s, 2, 37))
    \/ Len(s) = 41 /\ Take(s, 9) = UrnPrefix /\ IsHex(Drop(s, 9))
    \/ Len(s) = 45 /\ Take(s, 9) = UrnPrefix /\ IsCanonicalUUID(Drop(s, 9))

idFromString(s) ==
    IF IsUUID(s) THEN [s |-> s, err |-> Nil] ELSE [s |-> <<>>, err |-> ErrMalformed]

\* The bytes that nameRe, ^[a-zA-Z0-9_.-]*$, accepts.
NameChars ==
    {"a", "b", "c", "d", "e", "f", "g", "h", "i", "j", "k", "l", "m",
     "n", "o", "p", "q", "r", "s", "t", "u", "v", "w", "x", "y", "z",
     "A", "B", "C", "D", "E", "F", "G", "H", "I", "J", "K", "L", "M",
     "N", "O", "P", "Q", "R", "S", "T", "U", "V", "W", "X", "Y", "Z",
     "0", "1", "2", "3", "4", "5", "6", "7", "8", "9", "_", ".", "-"}

nameFromString(name) ==
    IF Len(name) > 0 /\ Len(name) <= 128
       /\ \A i \in 1..Len(name) : name[i] \in NameChars
    THEN [s |-> name, err |-> Nil]
    ELSE [s |-> <<>>, err |-> ErrMalformed]

(***************************************************************************)
(* Records of a response.  A pointer result is <<>> for nil and <<v>> for  *)
(* a pointer to v; a slice is a sequence, nil when empty.                  *)
(***************************************************************************)
\* The line that readResult and readLeasedJob go on with: they drop the
\* error of readLine and split whatever line it returned (nil on error).
LineOrNil(l) == IF l.err = Nil THEN l.line ELSE <<>>

\* readResult after readBlock returned b
readResultBlock(split, b) ==
    IF b.err # Nil THEN [val |-> <<>>, err |-> b.err, r |-> b.r]
    ELSE [val |-> <<[Success |-> split[2] = <<"1">>, Result |-> b.block]>>,
          err |-> Nil, r |-> b.r]

\* readResult after strconv.ParseUint returned resultLen
readResultLen(l, split, resultLen) ==
    IF resultLen.err THEN [val |-> <<>>, err |-> ErrMalformed, r |-> l.r]
    ELSE readResultBlock(split, readBlock(l.r, IntOfUint64(resultLen.n)))

\* readResult after strings.Split returned split
readResultSplit(l, split) ==
    IF Len(split) # 3 THEN [val |-> <<>>, err |-> ErrMalformed, r |-> l.r]
    ELSE IF split[2] # <<"0">> /\ split[2] # <<"1">>
    THEN [val |-> <<>>, err |-> ErrMalformed, r |-> l.r]
    ELSE readResultLen(l, split, ParseUint(split[3], 64))

\* readResult after readLine returned l
readResultOf(l) ==
    IF l.err = Blocked THEN [val |-> <<>>, err |-> Blocked, r |-> l.r]
    ELSE readResultSplit(l, Split(LineOrNil(l)))

readResult(r) == readResultOf(readLine(r))

\* readLeasedJob returning the job it has built when readBlock fails
readLeasedJobBlock_partial(split, ttr, b) ==
    [val |-> <<[ID |-> split[1], Name |-> split[2], TTR |-> ttr.n,
                Payload |-> b.block]>>,
     err |-> b.err, r |-> b.r]

\* readLeasedJob after readBlock returned b
readLeasedJobBlock(split, ttr, b) ==
    IF b.err # Nil THEN [val |-> <<>>, err |-> b.err, r |-> b.r]
    ELSE [val |-> <<[ID |-> split[1], Name |-> split[2], TTR |-> ttr.n,
                     Payload |-> b.block]>>,
          err |-> Nil, r |-> b.r]

\* readLeasedJob after the fields were parsed
readLeasedJobFields(l, split, id, name, ttr, payloadLen) ==
    IF id.err # Nil THEN [val |-> <<>>, err |-> id.err, r |-> l.r]
    ELSE IF name.err # Nil THEN [val |-> <<>>, err |-> name.err, r |-> l.r]
    ELSE IF ttr.err \/ payloadLen.err
    THEN [val |-> <<>>, err |-> ErrMalformed, r |-> l.r]
    ELSE readLeasedJobBlock(split, ttr,
                            readBlock(l.r, IntOfUint64(payloadLen.n)))

\* readLeasedJob after strings.Split returned split
readLeasedJobSplit(l, split) ==
    IF Len(split) # 4 THEN [val |-> <<>>, err |-> ErrMalformed, r |-> l.r]
    ELSE readLeasedJobFields(l, split, idFromString(split[1]),
                             nameFromString(split[2]),
                             ParseInt(split[3], 64), ParseUint(split[4], 64))

\* readLeasedJob after readLine returned l
readLeasedJobOf(l) ==
    IF l.err = Blocked THEN [val |-> <<>>, err |-> Blocked, r |-> l.r]
    ELSE readLeasedJobSplit(l, Split(LineOrNil(l)))

readLeasedJob(r) == readLeasedJobOf(readLine(r))

(***************************************************************************)
(* time.Parse(time.RFC3339, value)                                         *)
(***************************************************************************)
AllDigits(s) == \A i \in 1..Len(s) : IsDigit(s[i])

IsLeap(y) == y % 4 = 0 /\ (y % 100 # 0 \/ y % 400 = 0)

DaysIn(m, y) ==
    IF m = 2 THEN (IF IsLeap(y) THEN 29 ELSE 28)
    ELSE IF m \in {4, 6, 9, 11} THEN 30 ELSE 31

\* The zone of the layout element Z07:00: "Z", or a sign, two digits, a
\* colon and two digits.  Nothing may follow it.
IsZone(z) ==
    \/ z = <<"Z">>
    \/ /\ Len(z) = 6
       /\ z[1] \in {"+", "-"}
       /\ z[4] = ":"
       /\ AllDigits(SubSeq(z, 2, 3)) /\ AllDigits(SubSeq(z, 5, 6))
       /\ DecVal(SubSeq(z, 2, 3)) <= 24 /\ DecVal(SubSeq(z, 5, 6)) <= 60

\* What follows the seconds: an optional fraction (a period or comma and
\* digits), then the zone.
RECURSIVE DropDigits(_)
DropDigits(s) ==
    IF s # <<>> /\ IsDigit(Head(s)) THEN DropDigits(Tail(s)) ELSE s

AfterSeconds(s) ==
    IF Len(s) >= 2 /\ s[1] \in {".", ","} /\ IsDigit(s[2])
    THEN IsZone(DropDigits(Tail(s)))
    ELSE IsZone(s)

\* The layout 2006-01-02T15:04:05Z07:00: year of four digits, month and day
\* of two, an hour of one or two digits, minutes and seconds of two.
TimeParseOk(s) ==
    /\ Len(s) >= 16
    /\ AllDigits(SubSeq(s, 1, 4))
    /\ s[5] = "-" /\ AllDigits(SubSeq(s, 6, 7))
    /\ s[8] = "-" /\ AllDigits(SubSeq(s, 9, 10))
    /\ s[11] = "T"
    /\ IsDigit(s[12])
    /\ LET hl == IF IsDigit(s[13]) THEN 2 ELSE 1
           rest == Drop(s, 11 + hl)
           year == DecVal(SubSeq(s, 1, 4))
           month == DecVal(SubSeq(s, 6, 7))
           day == DecVal(SubSeq(s, 9, 10))
       IN  /\ DecVal(SubSeq(s, 12, 11 + hl)) < 24
           /\ month >= 1 /\ month <= 12
           /\ day >= 1 /\ day <= DaysIn(month, year)
           /\ Len(rest) >= 7
           /\ rest[1] = ":" /\ AllDigits(SubSeq(rest, 2, 3))
           /\ DecVal(SubSeq(rest, 2, 3)) < 60
           /\ rest[4] = ":" /\ AllDigits(SubSeq(rest, 5, 6))
           /\ DecVal(SubSeq(rest, 5, 6)) < 60
           /\ AfterSeconds(Drop(rest, 6))

\* The offset from UTC, in minutes, of a zone that IsZone accepts
ZoneOffset(z) ==
    IF z = <<"Z">> THEN 0
    ELSE (IF z[1] = "-" THEN -1 ELSE 1)
            * (60 * DecVal(SubSeq(z, 2, 3)) + DecVal(SubSeq(z, 5, 6)))

\* The digits of the fraction of a second in what follows the seconds
FractionOf(t) ==
    IF Len(t) >= 2 /\ t[1] \in {".", ","}
    THEN Take(Tail(t), Len(Tail(t)) - Len(DropDigits(Tail(t))))
    ELSE <<>>

\* The zone in what follows the seconds
ZoneOf(t) ==
    IF Len(t) >= 2 /\ t[1] \in {".", ","} THEN DropDigits(Tail(t)) ELSE t

\* The time.Time that time.Parse(time.RFC3339, s) returns for a text s
\* that TimeParseOk accepts; hl is the number of digits of the hour.
TimeAt(s, hl) ==
    [year |-> DecVal(SubSeq(s, 1, 4)),
     month |-> DecVal(SubSeq(s, 6, 7)),
     day |-> DecVal(SubSeq(s, 9, 10)),
     hour |-> DecVal(SubSeq(s, 12, 11 + hl)),
     minute |-> DecVal(SubSeq(s, 13 + hl, 14 + hl)),
     second |-> DecVal(SubSeq(s, 16 + hl, 17 + hl)),
     fraction |-> StripZeros(FractionOf(Drop(s, 17 + hl))),
     offset |-> ZoneOffset(ZoneOf(Drop(s, 17 + hl)))]

TimeOf(s) == TimeAt(s, IF IsDigit(s[13]) THEN 2 ELSE 1)

\* time.Time{}
ZeroTime ==
    [year |-> 1, month |-> 1, day |-> 1, hour |-> 0, minute |-> 0,
     second |-> 0, fraction |-> <<>>, offset |-> 0]

(***************************************************************************)
(* Inspected jobs                                                          *)
(***************************************************************************)
\* The keys of an inspected job (the cases of parseInspectedJob's switch)
Key ==
    [name |-> <<"n", "a", "m", "e">>,
     ttr |-> <<"t", "t", "r">>,
     ttl |-> <<"t", "t", "l">>,
     payload |-> <<"p", "a", "y", "l", "o", "a", "d">>,
     payload_size |-> <<"p", "a", "y", "l", "o", "a", "d", "-", "s", "i", "z", "e">>,
     max_attempts |-> <<"m", "a", "x", "-", "a", "t", "t", "e", "m", "p", "t", "s">>,
     attempts |-> <<"a", "t", "t", "e", "m", "p", "t", "s">>,
     max_fails |-> <<"m", "a", "x", "-", "f", "a", "i", "l", "s">>,
     fails |-> <<"f", "a", "i", "l", "s">>,
     priority |-> <<"p", "r", "i", "o", "r", "i", "t", "y">>,
     state |-> <<"s", "t", "a", "t", "e">>,
     created |-> <<"c", "r", "e", "a", "t", "e", "d">>]

InspectedJobZero ==
    [ID |-> <<>>, Name |-> <<>>, TTR |-> Num(0), TTL |-> Num(0),
     Payload |-> <<>>, Priority |-> Num(0), MaxAttempts |-> Num(0),
     MaxFails |-> Num(0), Attempts |-> Num(0), Fails |-> Num(0),
     State |-> Num(0), Created |-> ZeroTime]

\* k < n for a loop index k and a parsed count n
Less(k, n) == n.big >= 1 \/ (n.big = 0 /\ k < n.v)

\* A key line's outcome: the job, the error, the reader, and by how much
\* the loop index advances.
KeyBad(l, j) == [j |-> j, err |-> ErrMalformed, r |-> l.r, step |-> 1]

KeySet(l, j) == [j |-> j, err |-> Nil, r |-> l.r, step |-> 1]

\* A key whose value is parsed by strconv.ParseUint and converted to int
UintField(l, j, f, n) ==
    IF n.err THEN KeyBad(l, j)
    ELSE KeySet(l, [j EXCEPT ![f] = IntOfUint64(n.n)])

\* case "priority"
PriorityField(l, j, n) ==
    IF n.err THEN KeyBad(l, j) ELSE KeySet(l, [j EXCEPT !.Priority = n.n])

\* The same without the k++ after the block: the two lines count as one key
PayloadBlock_onekey(j, blk) ==
    IF blk.err # Nil THEN [j |-> j, err |-> blk.err, r |-> blk.r, step |-> 1]
    ELSE [j |-> [j EXCEPT !.Payload = blk.block], err |-> Nil, r |-> blk.r,
          step |-> 1]

\* case "payload-size", after readBlock returned blk
PayloadBlock(j, blk) ==
    IF blk.err # Nil THEN [j |-> j, err |-> blk.err, r |-> blk.r, step |-> 1]
    ELSE [j |-> [j EXCEPT !.Payload = blk.block], err |-> Nil, r |-> blk.r,
          step |-> 2]

\* case "payload-size", after p.rdr.Read(b) returned b for the marker
PayloadMarker(j, payloadSize, b) ==
    IF b.blk THEN [j |-> j, err |-> Blocked, r |-> b.r, step |-> 1]
    ELSE IF b.err \/ Len(b.data) # Len(payloadKey) \/ b.data # payloadKey
    THEN [j |-> j, err |-> ErrPayloadMustFollowSize, r |-> b.r, step |-> 1]
    ELSE PayloadBlock(j, readBlock(b.r, IntOfUint64(payloadSize.n)))

\* case "payload-size", after strconv.ParseUint returned payloadSize
PayloadSize(l, j, payloadSize) ==
    IF payloadSize.err
    THEN [j |-> j, err |-> NumError, r |-> l.r, step |-> 1]
    ELSE PayloadMarker(j, payloadSize, BufRead(l.r, Len(payloadKey)))

\* The switch on the key of a key line
KeySwitch(l, j, key, value) ==
    IF key = Key.name THEN KeySet(l, [j EXCEPT !.Name = value])
    ELSE IF key = Key.ttr THEN UintField(l, j, "TTR", ParseUint(value, 32))
    ELSE IF key = Key.ttl THEN UintField(l, j, "TTL", ParseUint(value, 64))
    ELSE IF key = Key.payload
    THEN [j |-> j, err |-> ErrPayloadMustFollowSize, r |-> l.r, step |-> 1]
    ELSE IF key = Key.payload_size
    THEN PayloadSize(l, j, ParseUint(value, 64))
    ELSE IF key \in {Key.max_attempts, Key.attempts, Key.max_fails,
                     Key.fails, Key.state}
    THEN UintField(l, j,
                   IF key = Key.max_attempts THEN "MaxAttempts"
                   ELSE IF key = Key.attempts THEN "Attempts"
                   ELSE IF key = Key.max_fails THEN "MaxFails"
                   ELSE IF key = Key.fails THEN "Fails"
                   ELSE "State",
                   ParseUint(value, 8))
    ELSE IF key = Key.priority THEN PriorityField(l, j, ParseInt(value, 32))
    ELSE IF key = Key.created
    THEN IF TimeParseOk(value)
         THEN KeySet(l, [j EXCEPT !.Created = TimeOf(value)])
         ELSE KeyBad(l, j)
    ELSE KeyBad(l, j)

\* One pass of parseInspectedJob's loop, after strings.Split returned split
KeySplit(l, j, split) ==
    IF Len(split) # 2 THEN KeyBad(l, j)
    ELSE KeySwitch(l, j, split[1], split[2])

\* One pass of parseInspectedJob's loop, after readLine returned l
KeyLineOf(l, j) ==
    IF l.err = Blocked THEN [j |-> j, err |-> Blocked, r |-> l.r, step |-> 1]
    ELSE IF l.err # Nil THEN KeyBad(l, j)
    ELSE KeySplit(l, j, Split(l.line))

KeyLine(r, j) == KeyLineOf(readLine(r), j)

RECURSIVE KeyLoop(_, _, _, _), KeyLoopStep(_, _, _)
\* for k := 0; k < keyCount; k++ { ... }
KeyLoop(r, j, k, keyCount) ==
    IF ~Less(k, keyCount) THEN [val |-> <<j>>, err |-> Nil, r |-> r]
    ELSE KeyLoopStep(KeyLine(r, j), k, keyCount)

\* x is the outcome of one pass of the loop
KeyLoopStep(x, k, keyCount) ==
    IF x.err # Nil THEN [val |-> <<>>, err |-> x.err, r |-> x.r]
    ELSE KeyLoop(x.r, x.j, k + x.step, keyCount)

\* parseInspectedJob after the id and the key count were parsed
parseInspectedJobHead(l, id, keyCount) ==
    IF id.err # Nil THEN [val |-> <<>>, err |-> id.err, r |-> l.r]
    ELSE IF keyCount.err THEN [val |-> <<>>, err |-> ErrMalformed, r |-> l.r]
    ELSE KeyLoop(l.r, [InspectedJobZero EXCEPT !.ID = id.s], 0, keyCount.n)

\* parseInspectedJob after strings.Split returned split
parseInspectedJobSplit(l, split) ==
    IF Len(split) # 2 THEN [val |-> <<>>, err |-> ErrMalformed, r |-> l.r]
    ELSE parseInspectedJobHead(l, idFromString(split[1]), Atoi(split[2]))

\* parseInspectedJob after readLine returned l
parseInspectedJobOf(l) ==
    IF l.err = Blocked THEN [val |-> <<>>, err |-> Blocked, r |-> l.r]
    ELSE IF l.err # Nil THEN [val |-> <<>>, err |-> ErrMalformed, r |-> l.r]
    ELSE parseInspectedJobSplit(l, Split(l.line))

parseInspectedJob(r) == parseInspectedJobOf(readLine(r))

RECURSIVE JobLoop(_, _, _), JobLoopStep(_, _, _)
\* for i := 0; i < replyCount; i++ { ... }
JobLoop(r, jobs, replyCount) ==
    IF ~Less(Len(jobs), replyCount) THEN [val |-> jobs, err |-> Nil, r |-> r]
    ELSE JobLoopStep(parseInspectedJob(r), jobs, replyCount)

\* x is what parseInspectedJob returned
JobLoopStep(x, jobs, replyCount) ==
    IF x.err # Nil THEN [val |-> <<>>, err |-> x.err, r |-> x.r]
    ELSE JobLoop(x.r, jobs \o x.val, replyCount)

\* readInspectedJobs without the check for trailing bytes
readInspectedJobsTail_ignore(x, t) ==
    IF t.blk THEN [val |-> <<>>, err |-> Blocked, r |-> t.r]
    ELSE [val |-> x.val, err |-> Nil, r |-> t.r]

\* readInspectedJobs after io.ReadAtLeast returned t for the trailing byte
readInspectedJobsTail(x, t) ==
    IF t.blk THEN [val |-> <<>>, err |-> Blocked, r |-> t.r]
    ELSE IF ~t.err THEN [val |-> <<>>, err |-> ErrMalformed, r |-> t.r]
    ELSE [val |-> x.val, err |-> Nil, r |-> t.r]

\* readInspectedJobs after the loop over the records ended with x
readInspectedJobsOf(x, replyCount) ==
    IF x.err # Nil THEN x
    ELSE IF replyCount # Num(Len(x.val))
    THEN [val |-> <<>>, err |-> ErrMalformed, r |-> x.r]
    ELSE readInspectedJobsTail(x, ReadAtLeast(x.r, 1))

readInspectedJobs(r, replyCount) ==
    readInspectedJobsOf(JobLoop(r, <<>>, replyCount), replyCount)

(***************************************************************************)
(* Client commands (client.go 67-328): the bytes each command writes.      *)
(* A job is a record of the fields of BgJob, FgJob or ScheduledJob; its    *)
(* integers are plain integers, its strings and payload are byte strings.  *)
(***************************************************************************)
\* The command words, each with the space after it
W ==
    [add |-> <<"a", "d", "d", " ">>,
     run |-> <<"r", "u", "n", " ">>,
     schedule |-> <<"s", "c", "h", "e", "d", "u", "l", "e", " ">>,
     result |-> <<"r", "e", "s", "u", "l", "t", " ">>,
     lease |-> <<"l", "e", "a", "s", "e", " ">>,
     complete |-> <<"c", "o", "m", "p", "l", "e", "t", "e", " ">>,
     fail |-> <<"f", "a", "i", "l", " ">>,
     delete |-> <<"d", "e", "l", "e", "t", "e", " ">>,
     inspect |-> <<"i", "n", "s", "p", "e", "c", "t", " ", "j", "o", "b", "s", " ">>]

\* The names of the flags, each with its "="
F ==
    [priority |-> <<"-", "p", "r", "i", "o", "r", "i", "t", "y", "=">>,
     max_attempts |-> <<"-", "m", "a", "x", "-", "a", "t", "t", "e", "m", "p", "t", "s", "=">>,
     max_fails |-> <<"-", "m", "a", "x", "-", "f", "a", "i", "l", "s", "=">>]

\* The error text of a Write that fails
BadTime == <<"A", " ", "b", "a", "d", " ", "t", "i", "m", "e">>

\* The flags appended with max-attempts first
Flags_swapped(j) ==
    (IF j.MaxAttempts # 0
     THEN <<F.max_attempts \o Itoa(j.MaxAttempts)>> ELSE <<>>)
    \o (IF j.Priority # 0 THEN <<F.priority \o Itoa(j.Priority)>> ELSE <<>>)
    \o (IF j.MaxFails # 0 THEN <<F.max_fails \o Itoa(j.MaxFails)>> ELSE <<>>)

\* The flags of Add and Schedule, in the order the code appends them.
Flags(j) ==
    (IF j.Priority # 0 THEN <<F.priority \o Itoa(j.Priority)>> ELSE <<>>)
    \o (IF j.MaxAttempts # 0
        THEN <<F.max_attempts \o Itoa(j.MaxAttempts)>> ELSE <<>>)
    \o (IF j.MaxFails # 0 THEN <<F.max_fails \o Itoa(j.MaxFails)>> ELSE <<>>)

\* flagsPad + strings.Join(flags, " ")
PaddedFlags(j) ==
    (IF Len(Flags(j)) > 0 THEN <<SP>> ELSE <<>>) \o Join(Flags(j))

\* The number of characters of b, a two-byte character counted once
RuneCount(b) == Cardinality({i \in 1..Len(b) : b[i] # "xA9"})

\* Add declaring the number of characters of the payload
AddBytes_runes(j) ==
    W.add \o j.ID \o <<SP>> \o j.Name \o <<SP>> \o Itoa(j.TTR) \o <<SP>>
    \o Itoa(j.TTL) \o <<SP>> \o Itoa(RuneCount(j.Payload)) \o PaddedFlags(j)
    \o crnl \o j.Payload \o crnl

AddBytes(j) ==
    W.add \o j.ID \o <<SP>> \o j.Name \o <<SP>> \o Itoa(j.TTR) \o <<SP>>
    \o Itoa(j.TTL) \o <<SP>> \o Itoa(Len(j.Payload)) \o PaddedFlags(j)
    \o crnl \o j.Payload \o crnl

RunBytes(j) ==
    W.run \o j.ID \o <<SP>> \o j.Name \o <<SP>> \o Itoa(j.TTR) \o <<SP>>
    \o Itoa(j.Timeout) \o <<SP>> \o Itoa(Len(j.Payload))
    \o (IF j.Priority # 0 THEN <<SP>> \o F.priority \o Itoa(j.Priority)
        ELSE <<>>)
    \o crnl \o j.Payload \o crnl

ScheduleBytes(j) ==
    W.schedule \o j.ID \o <<SP>> \o j.Name \o <<SP>> \o Itoa(j.TTR)
    \o <<SP>> \o Itoa(j.TTL) \o <<SP>> \o j.Time \o <<SP>>
    \o Itoa(Len(j.Payload)) \o PaddedFlags(j)
    \o crnl \o j.Payload \o crnl

ResultBytes(a) == W.result \o a.ID \o <<SP>> \o Itoa(a.Timeout) \o crnl

\* Lease writing the first name only
LeaseBytes_first(a) ==
    W.lease \o a.Names[1] \o <<SP>> \o Itoa(a.Timeout) \o crnl

LeaseBytes(a) ==
    W.lease \o Join(a.Names) \o <<SP>> \o Itoa(a.Timeout) \o crnl

CompleteBytes(a) ==
    W.complete \o a.ID \o <<SP>> \o Itoa(Len(a.Result)) \o crnl
    \o a.Result \o crnl

FailBytes(a) ==
    W.fail \o a.ID \o <<SP>> \o Itoa(Len(a.Result)) \o crnl
    \o a.Result \o crnl

DeleteBytes(a) == W.delete \o a.ID \o crnl

InspectJobsBytes(a) ==
    W.inspect \o a.Name \o <<SP>> \o Itoa(a.CursorOffset) \o <<SP>>
    \o Itoa(a.Limit) \o crnl

(***************************************************************************)
(* Client commands: what each command does with the response, after its    *)
(* write succeeded.                                                        *)
(***************************************************************************)
\* Add, Schedule, Complete, Fail, Delete: return c.parser.parseOk()
DecodeOkOf(x) == [val |-> <<>>, err |-> x.err, r |-> x.r]

DecodeOk(r) == DecodeOkOf(parseOk(r))

\* Run, Result: after parseOkWithReply returned c
\* Run and Result that read the record line before they reject the count
DecodeResultOf_skip(c) ==
    IF c.err # Nil THEN [val |-> <<>>, err |-> c.err, r |-> c.r]
    ELSE IF c.count # Num(1)
    THEN [val |-> <<>>, err |-> ErrMalformed, r |-> readLine(c.r).r]
    ELSE readResult(c.r)

DecodeResultOf(c) ==
    IF c.err # Nil THEN [val |-> <<>>, err |-> c.err, r |-> c.r]
    ELSE IF c.count # Num(1)
    THEN [val |-> <<>>, err |-> ErrMalformed, r |-> c.r]
    ELSE readResult(c.r)

DecodeResult(r) == DecodeResultOf(parseOkWithReply(r))

\* Lease reading a record whatever the count
DecodeLeaseOf_anycount(c) ==
    IF c.err # Nil THEN [val |-> <<>>, err |-> c.err, r |-> c.r]
    ELSE readLeasedJob(c.r)

\* Lease: after parseOkWithReply returned c
DecodeLeaseOf(c) ==
    IF c.err # Nil THEN [val |-> <<>>, err |-> c.err, r |-> c.r]
    ELSE IF c.count # Num(1)
    THEN [val |-> <<>>, err |-> ErrMalformed, r |-> c.r]
    ELSE readLeasedJob(c.r)

DecodeLease(r) == DecodeLeaseOf(parseOkWithReply(r))

\* InspectJobs: after parseOkWithReply returned c
DecodeInspectOf(c) ==
    IF c.err # Nil THEN [val |-> <<>>, err |-> c.err, r |-> c.r]
    ELSE readInspectedJobs(c.r, c.count)

DecodeInspect(r) == DecodeInspectOf(parseOkWithReply(r))

OkOps == {"Add", "Schedule", "Complete", "Fail", "Delete"}

\* The decoding that the command op does
Decode(op, r) ==
    IF op \in OkOps THEN DecodeOk(r)
    ELSE IF op \in {"Run", "Result"} THEN DecodeResult(r)
    ELSE IF op = "Lease" THEN DecodeLease(r)
    ELSE DecodeInspect(r)

(***************************************************************************)
(* The server's side of one exchange.  A reply is described by its first   *)
(* line, the parts that follow and trailing bytes; a part is a line of     *)
(* space-separated fields, followed, when has holds, by a marker, a block  *)
(* and the bytes that terminate the block.  Render gives the bytes on the  *)
(* wire; the transport delivers them in successive reads (chunks), and     *)
(* then either reports the end of the stream (eof) or stays silent.        *)
(***************************************************************************)
LinePart(fields) ==
    [line |-> fields, has |-> FALSE, marker |-> <<>>, block |-> <<>>,
     term |-> <<>>]

BlockPart(fields, marker, block, term) ==
    [line |-> fields, has |-> TRUE, marker |-> marker, block |-> block,
     term |-> term]

Reply(first, parts, tail) == [first |-> first, parts |-> parts, tail |-> tail]

RenderPart(p) ==
    Join(p.line) \o crnl
    \o (IF p.has THEN p.marker \o p.block \o p.term ELSE <<>>)

RECURSIVE RenderParts(_)
RenderParts(ps) ==
    IF ps = <<>> THEN <<>> ELSE RenderPart(Head(ps)) \o RenderParts(Tail(ps))

Render(reply) == reply.first \o crnl \o RenderParts(reply.parts) \o reply.tail

\* The largest number of reads a reply is delivered in.
MaxReads == 2

RECURSIVE Chunkings(_, _)
\* The ways to deliver the bytes b in at most n reads
Chunkings(b, n) ==
    IF b = <<>> THEN {<<>>}
    ELSE IF n <= 1 THEN {<<b>>}
    ELSE {<<b>>} \cup
         UNION {{<<Take(b, i)>> \o c : c \in Chunkings(Drop(b, i), n - 1)} :
                    i \in 1..(Len(b) - 1)}

\* What the server does in answer to a command: the reply, how the
\* transport delivers it, and whether the stream ends after it.
Responses(replies) ==
    UNION {{[reply |-> rp, chunks |-> c, eof |-> e] :
                c \in Chunkings(Render(rp), MaxReads), e \in BOOLEAN} :
           rp \in replies}

(***************************************************************************)
(* The client: one command on a connection.                                *)
(*   conn  the net.Conn: in and eof as in a reader state, wrt the writes   *)
(*         done on it, bad when its Write fails                            *)
(*   rdr   the bytes buffered in the client's bufio.Reader                 *)
(*   pc    "idle", "blocked" (the command waits in a read) or "done"       *)
(*   cur   the command, its arguments and the server's response            *)
(*   ret   what the command returned: the error and the value              *)
(***************************************************************************)
\* No command yet, and what cur holds of a command whose write failed
NoCmd ==
    [op |-> "none", args |-> <<>>, reply |-> Reply(<<>>, <<>>, <<>>),
     chunks |-> <<>>, eof |-> FALSE]

NoRet == [err |-> Nil, val |-> <<>>]

Reader == [buf |-> rdr, in |-> conn.in, eof |-> conn.eof]

\* The reader once the server's response is on its way to the client
R0(resp) ==
    [buf |-> rdr, in |-> conn.in \o resp.chunks, eof |-> resp.eof]

\* A command that goes on to read the response after its write failed
Command_readon(op, args, bytes, resp, d) ==
    /\ pc = "idle"
    /\ cur' = [op |-> op, args |-> args, reply |-> resp.reply,
               chunks |-> resp.chunks, eof |-> resp.eof]
    /\ IF d.err = Blocked
       THEN /\ pc' = "blocked"
            /\ ret' = NoRet
            /\ rdr' = rdr
            /\ conn' = [conn EXCEPT !.in = @ \o resp.chunks,
                                    !.eof = resp.eof]
       ELSE /\ pc' = "done"
            /\ ret' = [err |-> IF conn.bad THEN NewNetError(BadTime)
                               ELSE d.err,
                       val |-> d.val]
            /\ rdr' = d.r.buf
            /\ conn' = [conn EXCEPT !.in = d.r.in, !.eof = d.r.eof]

\* A command that writes its bytes a second time before it reads
Command_twice(op, args, bytes, resp, d) ==
    /\ pc = "idle"
    /\ cur' = IF conn.bad THEN [NoCmd EXCEPT !.op = op, !.args = args]
              ELSE [op |-> op, args |-> args, reply |-> resp.reply,
                    chunks |-> resp.chunks, eof |-> resp.eof]
    /\ IF conn.bad
       THEN /\ ret' = [err |-> NewNetError(BadTime), val |-> <<>>]
            /\ pc' = "done"
            /\ UNCHANGED <<conn, rdr>>
       ELSE IF d.err = Blocked
       THEN /\ pc' = "blocked"
            /\ ret' = NoRet
            /\ rdr' = rdr
            /\ conn' = [conn EXCEPT !.wrt = Append(Append(@, bytes), bytes),
                                    !.in = @ \o resp.chunks,
                                    !.eof = resp.eof]
       ELSE /\ pc' = "done"
            /\ ret' = [err |-> d.err, val |-> d.val]
            /\ rdr' = d.r.buf
            /\ conn' = [conn EXCEPT !.wrt = Append(Append(@, bytes), bytes),
                                    !.in = d.r.in, !.eof = d.r.eof]

\* A command: c.conn.Write(bytes), a NetError when the write fails, and
\* otherwise d, the outcome of decoding the response.
Command(op, args, bytes, resp, d) ==
    /\ pc = "idle"
    /\ cur' = IF conn.bad THEN [NoCmd EXCEPT !.op = op, !.args = args]
              ELSE [op |-> op, args |-> args, reply |-> resp.reply,
                    chunks |-> resp.chunks, eof |-> resp.eof]
    /\ IF conn.bad
       THEN /\ ret' = [err |-> NewNetError(BadTime), val |-> <<>>]
            /\ pc' = "done"
            /\ UNCHANGED <<conn, rdr>>
       ELSE IF d.err = Blocked
       THEN /\ pc' = "blocked"
            /\ ret' = NoRet
            /\ rdr' = rdr
            /\ conn' = [conn EXCEPT !.wrt = Append(@, bytes),
                                    !.in = @ \o resp.chunks,
                                    !.eof = resp.eof]
       ELSE /\ pc' = "done"
            /\ ret' = [err |-> d.err, val |-> d.val]
            /\ rdr' = d.r.buf
            /\ conn' = [conn EXCEPT !.wrt = Append(@, bytes),
                                    !.in = d.r.in, !.eof = d.r.eof]

Add(j, resp) == Command("Add", j, AddBytes(j), resp, DecodeOk(R0(resp)))

Run(j, resp) == Command("Run", j, RunBytes(j), resp, DecodeResult(R0(resp)))

Schedule(j, resp) ==
    Command("Schedule", j, ScheduleBytes(j), resp, DecodeOk(R0(resp)))

Result(a, resp) ==
    Command("Result", a, ResultBytes(a), resp, DecodeResult(R0(resp)))

Lease(a, resp) ==
    Command("Lease", a, LeaseBytes(a), resp, DecodeLease(R0(resp)))

Complete(a, resp) ==
    Command("Complete", a, CompleteBytes(a), resp, DecodeOk(R0(resp)))

Fail(a, resp) == Command("Fail", a, FailBytes(a), resp, DecodeOk(R0(resp)))

Delete(a, resp) ==
    Command("Delete", a, DeleteBytes(a), resp, DecodeOk(R0(resp)))

InspectJobs(a, resp) ==
    Command("InspectJobs", a, InspectJobsBytes(a), resp,
            DecodeInspect(R0(resp)))

\* The error of net.Conn.Close on a connection that is closed already
ErrNetClosing ==
    [kind |-> "OpError", code |-> <<>>,
     text |-> <<"use of closed network connection">>]

\* c.conn.Close(): nil the first time, an error from then on
ConnClose == IF conn.closed THEN ErrNetClosing ELSE Nil

\* A Close that remembers that the client is closed and returns nil again
Close_once ==
    /\ pc = "idle"
    /\ cur' = [NoCmd EXCEPT !.op = "Close"]
    /\ ret' = [err |-> Nil, val |-> <<>>]
    /\ conn' = [conn EXCEPT !.closed = TRUE, !.bad = TRUE]
    /\ pc' = "done"
    /\ UNCHANGED rdr

\* Close returns what c.conn.Close() returns; from then on the writes of
\* the commands fail.
Close ==
    /\ pc = "idle"
    /\ cur' = [NoCmd EXCEPT !.op = "Close"]
    /\ ret' = [err |-> ConnClose, val |-> <<>>]
    /\ conn' = [conn EXCEPT !.closed = TRUE, !.bad = TRUE]
    /\ pc' = "done"
    /\ UNCHANGED rdr

\* The call returns to its caller, which may call the client again
Return ==
    /\ pc = "done"
    /\ pc' = "idle"
    /\ UNCHANGED <<conn, rdr, cur, ret>>

\* The command goes on after the read it was blocked in returned io.EOF;
\* d is the outcome of its decoding.
ConnEndWith(d) ==
    /\ pc' = "done"
    /\ ret' = [err |-> d.err, val |-> d.val]
    /\ rdr' = d.r.buf
    /\ conn' = [conn EXCEPT !.in = d.r.in, !.eof = TRUE]
    /\ UNCHANGED cur

\* The peer closes the connection while the command waits in a read.
ConnEnd ==
    /\ pc = "blocked"
    /\ ConnEndWith(Decode(cur.op, [Reader EXCEPT !.eof = TRUE]))

(***************************************************************************)
(* Inputs: the arguments of the commands and the replies of the server.    *)
(***************************************************************************)
ID1 == <<"6", "b", "a", "7", "b", "8", "1", "0", "-", "9", "d", "a", "d", "-", "1", "1", "d", "1", "-", "8", "0", "b", "4", "-", "0", "0", "c", "0", "4", "f", "d", "4", "3", "0", "c", "4">>

NameJ1 == <<"j", "1">>

TimeT1 == <<"2", "0", "1", "6", "-", "0", "1", "-", "0", "2", "T", "1", "5", ":", "0", "4", ":", "0", "5", "Z">>

\* Payload and result blocks: empty, one byte, a CR LF pair, a LF and a
\* zero byte, a two-byte character followed by a CR.
Payloads ==
    {<<>>, <<"a">>, <<CR, LF>>, <<LF, "NUL">>, <<"xC3", "xA9", CR>>}

BgJob1 ==
    [ID |-> ID1, Name |-> NameJ1, TTR |-> 60, TTL |-> 60000,
     Payload |-> <<"a">>, Priority |-> 0, MaxAttempts |-> 0, MaxFails |-> 0]

FgJob1 ==
    [ID |-> ID1, Name |-> NameJ1, TTR |-> 60, Timeout |-> 1000,
     Payload |-> <<"a">>, Priority |-> 0]

ScheduledJob1 ==
    [ID |-> ID1, Name |-> NameJ1, TTR |-> 60, TTL |-> 60000,
     Payload |-> <<"a">>, Time |-> TimeT1, Priority |-> 0,
     MaxAttempts |-> 0, MaxFails |-> 0]

ResultArgs1 == [ID |-> ID1, Timeout |-> 1000]

LeaseArgs1 == [Names |-> <<NameJ1>>, Timeout |-> 1000]

CompleteArgs1 == [ID |-> ID1, Result |-> <<"a">>]

DeleteArgs1 == [ID |-> ID1]

InspectArgs1 == [Name |-> NameJ1, CursorOffset |-> 0, Limit |-> 10]

OKLine == <<"+">> \o OK

\* "+OK <count>"
OKCount(count) == OKLine \o <<SP>> \o count

TimedOut == <<"-", "T", "I", "M", "E", "D", "-", "O", "U", "T">>

\* Replies to Add, Schedule, Complete, Fail and Delete
AckReplies ==
    {Reply(first, <<>>, <<>>) :
        first \in {OKLine, TimedOut, <<"N", "O", "T", "-", "F", "O", "U", "N", "D">>, <<>>, OKCount(<<"1">>)}}

\* A well-formed job-result reply: "+OK 1", "<id> <flag> <length>", block
ResultReply(flag, block) ==
    Reply(OKCount(<<"1">>),
          <<BlockPart(<<ID1, flag, Itoa(Len(block))>>, <<>>, block, crnl)>>,
          <<>>)

\* A job-result reply of one record with the given fields, block and
\* terminator bytes
ResultReplyOf(count, fields, block, term, tail) ==
    Reply(OKCount(count), <<BlockPart(fields, <<>>, block, term)>>, tail)

\* Declared lengths outside and at the ends of [0, maxDataBlock]
Len_neg1 == <<"-", "1">>
Len_max == Itoa(maxDataBlock)
Len_max1 == Itoa(maxDataBlock + 1)
Len_2p63 == MinInt64Mag
Len_2p64 == <<"1", "8", "4", "4", "6", "7", "4", "4", "0", "7", "3", "7", "0", "9", "5", "5", "1", "6", "1", "6">>

OddLengths == {Len_neg1, Len_max, Len_max1, Len_2p63, Len_2p64}

\* Ways a block of declared length 1 or more comes short of its length
\* plus terminator: <<declared length, block bytes, terminator bytes>>
ShortBlocks ==
    {<<<<"1">>, <<>>, crnl>>, <<<<"1", "0">>, <<>>, crnl>>,
     <<<<"1">>, <<"a">>, <<>>>>, <<<<"1">>, <<"a">>, <<CR>>>>,
     <<<<"2">>, <<"a">>, crnl>>}

\* Replies to Run and Result
ResultReplies ==
    {ResultReply(flag, b) : flag \in {<<"0">>, <<"1">>}, b \in Payloads}
    \cup {ResultReplyOf(<<"1">>, <<ID1, flag, <<"1">>>>, <<"a">>, crnl, <<>>) :
            flag \in {<<"-", "1">>, <<"2">>, <<"t", "r", "u", "e">>}}
    \cup {ResultReplyOf(<<"1">>, fields, <<"a">>, crnl, <<>>) :
            fields \in {<<ID1, <<"1">>>>, <<ID1, <<"1">>, <<"1">>, <<"1">>>>}}
    \cup {ResultReplyOf(<<"1">>, <<ID1, <<"0">>, sb[1]>>, sb[2], sb[3], <<>>) :
            sb \in ShortBlocks}
    \cup {ResultReplyOf(<<"1">>, <<ID1, <<"1">>, <<"1">>>>, <<"a">>,
                        <<"x", "y">>, <<>>)}
    \cup {ResultReplyOf(<<"1">>, <<ID1, <<"1">>, n>>, <<"a">>, crnl, <<>>) :
            n \in OddLengths}
    \cup {ResultReplyOf(count, <<ID1, <<"1">>, <<"1">>>>, <<"a">>, crnl, <<>>) :
            count \in {<<"0">>, <<"2">>, <<"-", "1">>}}
    \cup {ResultReplyOf(<<"1">>, <<ID1, <<"1">>, <<"1">>>>, <<"a">>, crnl,
                        <<"x">>)}
    \cup {Reply(TimedOut, <<>>, <<>>)}

\* A leased-job reply of one record with the given fields
LeaseReplyOf(count, fields, block, term, tail) ==
    Reply(OKCount(count), <<BlockPart(fields, <<>>, block, term)>>, tail)

TTR60 == <<"6", "0">>

BadName == <<"*">>

\* Replies to Lease: records "<id> <name> <length>" and records
\* "<id> <name> <ttr> <length>"
LeaseReplies ==
    {LeaseReplyOf(<<"1">>, <<ID1, NameJ1, Itoa(Len(b))>>, b, crnl, <<>>) :
        b \in Payloads}
    \cup {LeaseReplyOf(<<"1">>, <<ID1, NameJ1, TTR60, Itoa(Len(b))>>, b, crnl,
                       <<>>) : b \in Payloads}
    \cup {LeaseReplyOf(<<"1">>, <<ID1, NameJ1, sb[1]>>, sb[2], sb[3], <<>>) :
            sb \in ShortBlocks}
    \cup {LeaseReplyOf(<<"1">>, <<ID1, NameJ1, TTR60, sb[1]>>, sb[2], sb[3],
                       <<>>) : sb \in ShortBlocks}
    \cup {LeaseReplyOf(<<"1">>, <<ID1, NameJ1, TTR60, n>>, <<"a">>, crnl, <<>>) :
            n \in OddLengths}
    \cup {LeaseReplyOf(count, <<ID1, NameJ1, TTR60, <<"1">>>>, <<"a">>, crnl,
                       <<>>) : count \in {<<"0">>, <<"2">>}}
    \cup {LeaseReplyOf(<<"1">>, <<ID1, NameJ1, TTR60, <<"1">>>>, <<"a">>, crnl,
                       <<"x">>)}
    \cup {LeaseReplyOf(<<"1">>, <<ID1, BadName, TTR60, <<"1">>>>, <<"a">>, crnl,
                       <<>>)}
    \cup {Reply(TimedOut, <<>>, <<>>)}

ID2 == <<"6", "b", "a", "7", "b", "8", "1", "1", "-", "9", "d", "a", "d", "-", "1", "1", "d", "1", "-", "8", "0", "b", "4", "-", "0", "0", "c", "0", "4", "f", "d", "4", "3", "0", "c", "4">>

NameEntry == LinePart(<<Key.name, NameJ1>>)

TtrEntry == LinePart(<<Key.ttr, <<"5">>>>)

\* "payload-size <n>", then "payload ", the block and its terminator
PayloadEntry(n, block, term) ==
    BlockPart(<<Key.payload_size, n>>, payloadKey, block, term)

\* An inspected-job record: "<id> <key-count>" and its entries
InspectRecord(id, keyCount, entries) ==
    <<LinePart(<<id, keyCount>>)>> \o entries

\* The record of a job with a name and a payload, with the key count at
\* which the loop of parseInspectedJob ends after the payload: the loop
\* counts the payload-size line and the payload line as two keys.
PayloadRecord(id, n, block, term) ==
    InspectRecord(id, <<"3">>, <<NameEntry, PayloadEntry(n, block, term)>>)

PlainRecord(id) == InspectRecord(id, <<"2">>, <<NameEntry, TtrEntry>>)

\* The largest number of records in a reply to InspectJobs
MaxReplies == 2

RECURSIVE Records(_)
\* k records in a row, with alternating ids
Records(k) ==
    IF k = 0 THEN <<>>
    ELSE Records(k - 1) \o PlainRecord(IF k % 2 = 1 THEN ID1 ELSE ID2)

\* Replies to InspectJobs
InspectReplies ==
    {Reply(OKCount(Itoa(k)), Records(k), <<>>) : k \in 0..MaxReplies}
    \cup {Reply(OKCount(<<"1">>),
                PayloadRecord(ID1, Itoa(Len(b)), b, crnl), <<>>) :
            b \in Payloads}
    \cup {Reply(OKCount(<<"1">>),
                InspectRecord(ID1, <<"2">>,
                              <<NameEntry,
                                PayloadEntry(<<"1">>, <<"a">>, crnl)>>),
                <<>>)}
    \cup {Reply(OKCount(<<"2">>),
                PayloadRecord(ID2, <<"1">>, <<"a">>, crnl)
                    \o PlainRecord(ID1), <<>>)}
    \cup {Reply(OKCount(<<"2">>), PlainRecord(ID1), <<>>),
          Reply(OKCount(<<"1">>), PlainRecord(ID1) \o PlainRecord(ID2), <<>>),
          Reply(OKCount(<<"-", "1">>), PlainRecord(ID1), <<>>),
          Reply(OKCount(<<"1">>), PlainRecord(ID1), <<"x">>),
          Reply(OKCount(<<"1">>),
                PayloadRecord(ID1, <<"1">>, <<"a">>, crnl), <<"x">>),
          Reply(TimedOut, <<>>, <<>>)}
    \cup {Reply(OKCount(<<"1">>), PayloadRecord(ID1, sb[1], sb[2], sb[3]),
                <<>>) : sb \in ShortBlocks}
    \cup {Reply(OKCount(<<"1">>), PayloadRecord(ID1, n, <<"a">>, crnl), <<>>) :
            n \in OddLengths}

(***************************************************************************)
(* Replies with ids and names that are not valid, with the key payload out *)
(* of its place, and replies that end inside a line.                       *)
(***************************************************************************)
\* The longest name that nameFromString accepts
MaxNameLen == 128

LongName == [i \in 1..(MaxNameLen + 1) |-> "a"]

\* Ids that uuid.FromString rejects: too short, a letter that is no
\* hexadecimal digit, empty
BadIDs == {<<"1", "2", "3">>, [ID1 EXCEPT ![1] = "g"], <<>>}

\* Names that are empty, have a byte outside the grammar, or are too long
BadNames == {<<>>, BadName, <<"j", "/", "1">>, LongName}

\* Job-result replies, well-formed but for the id
BadIdResultReplies ==
    {ResultReplyOf(<<"1">>, <<id, <<"1">>, <<"1">>>>, <<"a">>, crnl, <<>>) :
        id \in BadIDs}

\* Leased-job replies, well-formed but for the id or the name
BadLeaseReplies ==
    {LeaseReplyOf(<<"1">>, <<id, NameJ1, TTR60, <<"1">>>>, <<"a">>, crnl,
                  <<>>) : id \in BadIDs}
    \cup {LeaseReplyOf(<<"1">>, <<id, NameJ1, <<"1">>>>, <<"a">>, crnl, <<>>) :
            id \in BadIDs}
    \cup {LeaseReplyOf(<<"1">>, <<ID1, n, TTR60, <<"1">>>>, <<"a">>, crnl,
                       <<>>) : n \in BadNames}
    \cup {LeaseReplyOf(<<"1">>, <<ID1, n, <<"1">>>>, <<"a">>, crnl, <<>>) :
            n \in BadNames}

\* "payload <value>" as a key line of its own
PayloadLine(value) == LinePart(<<Key.payload>> \o value)

\* Values of a payload line: plain, empty, with a CR LF, with a space
PayloadValues ==
    {<<<<"a">>>>, <<<<>>>>, <<<<"a", CR, LF, "b">>>>, <<<<"a">>, <<"b">>>>}

\* Inspected-job replies, well-formed but for the id, for the name, or for
\* a payload line that does not follow a payload-size line
BadInspectReplies ==
    {Reply(OKCount(<<"1">>), PlainRecord(id), <<>>) : id \in BadIDs}
    \cup {Reply(OKCount(<<"1">>),
                InspectRecord(ID1, <<"2">>,
                              <<LinePart(<<Key.name, n>>), TtrEntry>>),
                <<>>) : n \in BadNames}
    \cup {Reply(OKCount(<<"1">>),
                InspectRecord(ID1, <<"1">>, <<TtrEntry>>), <<>>)}
    \cup {Reply(OKCount(<<"1">>),
                InspectRecord(ID1, <<"2">>, <<NameEntry, PayloadLine(v)>>),
                <<>>) : v \in PayloadValues}
    \cup {Reply(OKCount(<<"1">>),
                InspectRecord(ID1, <<"3">>,
                              <<LinePart(<<Key.payload_size, <<"1">>>>),
                                NameEntry, PayloadLine(v)>>),
                <<>>) : v \in PayloadValues}

\* The beginnings of a line: nothing, some bytes, all but its LF
LineCuts(line) == {<<>>, Take(line, 2), line, line \o <<CR>>}

\* Replies that end inside the record line of a job-result or leased-job
\* record
CutRecordReplies ==
    {Reply(OKCount(<<"1">>), <<>>, t) :
        t \in LineCuts(Join(<<ID1, <<"1">>, <<"1">>>>))}

\* Replies that end inside the first line or inside a key line of an
\* inspected-job record
CutInspectReplies ==
    {Reply(OKCount(<<"1">>), <<>>, t) : t \in LineCuts(Join(<<ID1, <<"2">>>>))}
    \cup {Reply(OKCount(<<"1">>),
                InspectRecord(ID1, <<"2">>, <<NameEntry>>), t) :
            t \in LineCuts(Join(<<Key.ttr, <<"5">>>>))}

\* A response that ends inside the first line of the reply
CutFirstLine(replies) ==
    UNION {{[reply |-> rp,
             chunks |-> IF n = 0 THEN <<>> ELSE <<Take(Render(rp), n)>>,
             eof |-> e] : n \in 0..(Len(rp.first) + 1), e \in BOOLEAN} :
           rp \in replies}

(***************************************************************************)
(* Inspected-job records with every key, and with key lines that are not   *)
(* well-formed.                                                            *)
(***************************************************************************)
TimeT2 == <<"2", "0", "2", "0", "-", "0", "2", "-", "2", "9", "T", "2", "3", ":", "5", "9", ":", "0", "0", ".", "5", "-", "0", "7", ":", "0", "0">>

\* The key lines of a job, the payload among them
FullEntries ==
    <<NameEntry,
      LinePart(<<Key.ttr, <<"6", "0">>>>),
      LinePart(<<Key.ttl, <<"6", "0", "0", "0", "0">>>>),
      PayloadEntry(<<"3">>, <<"a", CR, LF>>, crnl),
      LinePart(<<Key.max_attempts, <<"3">>>>),
      LinePart(<<Key.attempts, <<"1">>>>),
      LinePart(<<Key.max_fails, <<"2">>>>),
      LinePart(<<Key.fails, <<"0">>>>),
      LinePart(<<Key.priority, <<"-", "3">>>>),
      LinePart(<<Key.state, <<"1">>>>),
      LinePart(<<Key.created, TimeT1>>)>>

Reverse(s) == [i \in 1..Len(s) |-> s[Len(s) + 1 - i]]

\* Key lines with the greatest values of the fields
EdgeEntries ==
    <<LinePart(<<Key.created, TimeT2>>),
      LinePart(<<Key.priority, MaxInt32>>),
      LinePart(<<Key.ttr, MaxUint32>>),
      LinePart(<<Key.state, MaxUint8>>),
      NameEntry>>

\* Key lines with a ttl of 2^63
BigTtlEntries == <<NameEntry, LinePart(<<Key.ttl, MinInt64Mag>>)>>

\* The number of key lines of the entries, "payload-size" and "payload"
\* being two lines
KeyLines(entries) ==
    Len(entries) + Len(SelectSeq(entries, LAMBDA e : e.has))

\* A record that declares as many keys as it has key lines
CountedRecord(id, entries) ==
    InspectRecord(id, Itoa(KeyLines(entries)), entries)

\* Replies to InspectJobs with well-formed records of many keys
FullInspectReplies ==
    {Reply(OKCount(<<"1">>), CountedRecord(ID1, e), <<>>) :
        e \in {FullEntries, Reverse(FullEntries), EdgeEntries, BigTtlEntries,
               <<PayloadEntry(<<"1">>, <<"a">>, crnl), NameEntry, TtrEntry>>}}
    \cup {Reply(OKCount(<<"2">>),
                CountedRecord(ID2, <<NameEntry,
                                     PayloadEntry(<<"1">>, <<"a">>, crnl),
                                     TtrEntry>>)
                    \o PlainRecord(ID1), <<>>)}

\* Records that declare one key for "payload-size" and "payload" together
OneKeyReplies ==
    {Reply(OKCount(<<"1">>),
           InspectRecord(ID1, Itoa(Len(e)), e), <<>>) :
        e \in {<<NameEntry, PayloadEntry(<<"1">>, <<"a">>, crnl), TtrEntry>>,
               <<PayloadEntry(<<"1">>, <<"a">>, crnl), NameEntry>>,
               <<PayloadEntry(<<"1">>, <<"a">>, crnl)>>}}
    \cup {Reply(OKCount(<<"2">>),
                InspectRecord(ID2, <<"2">>,
                              <<PayloadEntry(<<"1">>, <<"a">>, crnl),
                                NameEntry>>)
                    \o PlainRecord(ID1), <<>>)}

\* The keys whose value is a number
NumberKeys ==
    {Key.ttr, Key.ttl, Key.payload_size, Key.max_attempts, Key.attempts,
     Key.max_fails, Key.fails, Key.priority, Key.state}

\* Values that are no number
NotNumbers == {<<"x">>, <<>>, <<"1", "x">>, <<"1", ".", "5">>}

\* Numbers below or above the range of the key's field
OutOfRange64 == {Len_2p64}

OutOfRangeOf(key) ==
    OutOfRange64
    \cup (IF key = Key.priority
          THEN {MinInt32Mag, <<"-">> \o MaxUint32}
          ELSE {Len_neg1})
    \cup (IF key = Key.ttr THEN {<<"4", "2", "9", "4", "9", "6", "7", "2", "9", "6">>}
          ELSE {})
    \cup (IF key \in {Key.max_attempts, Key.attempts, Key.max_fails,
                      Key.fails, Key.state}
          THEN {<<"2", "5", "6">>}
          ELSE {})

\* Texts that are no timestamp of the layout
BadTimestamps ==
    {<<"x">>, <<>>, [TimeT1 EXCEPT ![6] = "1", ![7] = "3"], Take(TimeT1, 19),
     [TimeT1 EXCEPT ![11] = "t"]}

\* Key lines that are not well-formed: a value that does not parse, an
\* unknown key, a line of one field, a line of three fields
BadKeyLines ==
    {LinePart(<<k, v>>) : k \in NumberKeys, v \in NotNumbers}
    \cup UNION {{LinePart(<<k, v>>) : v \in OutOfRangeOf(k)} : k \in NumberKeys}
    \cup {LinePart(<<Key.created, v>>) : v \in BadTimestamps}
    \cup {LinePart(<<<<"f", "o", "o">>, <<"1">>>>), LinePart(<<Key.ttr>>),
          LinePart(<<Key.ttr, <<"1">>, <<"2">>>>), LinePart(<<<<>>>>)}

\* Replies to InspectJobs with a record of a name and such a key line
BadKeyReplies ==
    {Reply(OKCount(<<"1">>),
           InspectRecord(ID1, <<"2">>, <<NameEntry, l>>), <<>>) :
        l \in BadKeyLines}

\* Negative key counts
NegCounts == {<<"-", "1">>, <<"-", "2">>, <<"-", "1", "0", "0", "0", "0", "0", "0", "0", "0", "0">>}

\* Replies to InspectJobs with a record line that declares a negative
\* number of keys, alone and with key lines behind it
NegCountReplies ==
    {Reply(OKCount(<<"1">>), InspectRecord(ID1, c, <<>>), <<>>) :
        c \in NegCounts}
    \cup {Reply(OKCount(<<"1">>), InspectRecord(ID1, c, <<NameEntry>>), <<>>) :
            c \in NegCounts}
    \cup {Reply(OKCount(<<"2">>),
                InspectRecord(ID1, <<"-", "1">>, <<>>) \o PlainRecord(ID2),
                <<>>)}

\* Time-to-run values of leased-job records
LeaseTTRs ==
    {<<"0">>, <<"-", "5">>, <<"-", "0">>, MaxInt64, <<"-">> \o MinInt64Mag,
     MinInt64Mag, <<"x">>}

\* Replies to Lease with records "<id> <name> <ttr> <length>" of these
\* values
TtrLeaseReplies ==
    {LeaseReplyOf(<<"1">>, <<ID1, NameJ1, t, <<"1">>>>, <<"a">>, crnl, <<>>) :
        t \in LeaseTTRs}

(***************************************************************************)
(* Specification: one command on a new client, for each command with one   *)
(* set of arguments and every response of the server.                      *)
(***************************************************************************)
\* NewClient(conn): nothing read, nothing written
Init ==
    /\ conn \in {[in |-> <<>>, eof |-> FALSE, wrt |-> <<>>, bad |-> b,
                  closed |-> FALSE] : b \in BOOLEAN}
    /\ rdr = <<>>
    /\ pc = "idle"
    /\ cur = NoCmd
    /\ ret = NoRet

\* No command has been called on the client yet
Idle == pc = "idle"

Next ==
    \/ Idle /\ \E resp \in Responses(AckReplies) \cup CutFirstLine(AckReplies) :
            Add(BgJob1, resp)
    \/ Idle /\ \E resp \in Responses(ResultReplies \cup BadIdResultReplies
                                    \cup CutRecordReplies) :
            Run(FgJob1, resp)
    \/ Idle /\ \E resp \in Responses(AckReplies) : Schedule(ScheduledJob1, resp)
    \/ Idle /\ \E resp \in Responses(ResultReplies \cup BadIdResultReplies
                                    \cup CutRecordReplies)
                           \cup CutFirstLine({ResultReply(<<"1">>, <<"a">>)}) :
            Result(ResultArgs1, resp)
    \/ Idle /\ \E resp \in Responses(LeaseReplies \cup BadLeaseReplies
                                    \cup CutRecordReplies
                                    \cup TtrLeaseReplies) :
            Lease(LeaseArgs1, resp)
    \/ Idle /\ \E resp \in Responses(AckReplies) : Complete(CompleteArgs1, resp)
    \/ Idle /\ \E resp \in Responses(AckReplies) : Fail(CompleteArgs1, resp)
    \/ Idle /\ \E resp \in Responses(AckReplies) : Delete(DeleteArgs1, resp)
    \/ Idle /\ \E resp \in Responses(InspectReplies \cup BadInspectReplies
                                    \cup CutInspectReplies
                                    \cup FullInspectReplies
                                    \cup OneKeyReplies \cup BadKeyReplies
                                    \cup NegCountReplies) :
            InspectJobs(InspectArgs1, resp)
    \/ ConnEnd

Spec == Init /\ [][Next]_vars

(***************************************************************************)
(* Specification of the encoders: one command on a new client, for each    *)
(* command with many arguments and a short list of responses.              *)
(***************************************************************************)
\* The most names Lease is called with
MaxNames == 2

NameAB == <<"a", "-", "b">>

\* Eleven bytes, the last two of them one two-byte character
LongPayload == <<"0", "1", "2", "3", "4", "5", "6", "7", "8", "xC3", "xA9">>

EncPayloads == Payloads \cup {LongPayload}

JobHeads ==
    {[ID |-> ID1, Name |-> NameJ1, TTR |-> 60, TTL |-> 60000],
     [ID |-> ID2, Name |-> NameAB, TTR |-> 0, TTL |-> 1]}

BgJobs ==
    {[ID |-> h.ID, Name |-> h.Name, TTR |-> h.TTR, TTL |-> h.TTL,
      Payload |-> p, Priority |-> pr, MaxAttempts |-> ma, MaxFails |-> mf] :
        h \in JobHeads, p \in EncPayloads, pr \in {0, 7, -3}, ma \in {0, 3},
        mf \in {0, 2}}

FgJobs ==
    {[ID |-> h.ID, Name |-> h.Name, TTR |-> h.TTR, Timeout |-> 1000,
      Payload |-> p, Priority |-> pr] :
        h \in JobHeads, p \in EncPayloads, pr \in {0, 7, -3}}

ScheduledJobs ==
    {[ID |-> j.ID, Name |-> j.Name, TTR |-> j.TTR, TTL |-> j.TTL,
      Payload |-> j.Payload, Time |-> TimeT1, Priority |-> j.Priority,
      MaxAttempts |-> j.MaxAttempts, MaxFails |-> j.MaxFails] : j \in BgJobs}

ResultArgs == {[ID |-> id, Timeout |-> t] : id \in {ID1, ID2}, t \in {0, 1000}}

LeaseArgs ==
    {[Names |-> ns, Timeout |-> t] :
        ns \in UNION {[1..n -> {NameJ1, NameAB}] : n \in 1..MaxNames},
        t \in {0, 1000}}

CompleteArgs ==
    {[ID |-> id, Result |-> b] : id \in {ID1, ID2}, b \in EncPayloads}

DeleteArgs == {[ID |-> id] : id \in {ID1, ID2}}

InspectArgs ==
    {[Name |-> n, CursorOffset |-> o, Limit |-> 10] :
        n \in {NameJ1, NameAB}, o \in {0, 5}}

\* The reply delivered in one read
Whole(rp) ==
    {[reply |-> rp, chunks |-> <<Render(rp)>>, eof |-> e] : e \in BOOLEAN}

AddReplies == {Reply(OKLine, <<>>, <<>>), Reply(TimedOut, <<>>, <<>>)}

NextEnc ==
    \/ Idle /\ \E j \in BgJobs, resp \in Responses(AddReplies) : Add(j, resp)
    \/ Idle /\ \E j \in FgJobs, resp \in Whole(ResultReply(<<"1">>, <<"a">>)) :
            Run(j, resp)
    \/ Idle /\ \E j \in ScheduledJobs, resp \in Whole(Reply(OKLine, <<>>, <<>>)) :
            Schedule(j, resp)
    \/ Idle /\ \E a \in ResultArgs, resp \in Whole(ResultReply(<<"1">>, <<"a">>)) :
            Result(a, resp)
    \/ Idle /\ \E a \in LeaseArgs,
          resp \in Whole(LeaseReplyOf(<<"1">>, <<ID1, NameJ1, TTR60, <<"1">>>>,
                                      <<"a">>, crnl, <<>>)) :
            Lease(a, resp)
    \/ Idle /\ \E a \in CompleteArgs, resp \in Whole(Reply(OKLine, <<>>, <<>>)) :
            Complete(a, resp)
    \/ Idle /\ \E a \in CompleteArgs, resp \in Whole(Reply(OKLine, <<>>, <<>>)) :
            Fail(a, resp)
    \/ Idle /\ \E a \in DeleteArgs, resp \in Whole(Reply(OKLine, <<>>, <<>>)) :
            Delete(a, resp)
    \/ Idle /\ \E a \in InspectArgs,
          resp \in Whole(Reply(OKCount(<<"1">>), PlainRecord(ID1), <<>>)) :
            InspectJobs(a, resp)
    \/ ConnEnd

SpecEnc == Init /\ [][NextEnc]_vars

(***************************************************************************)
(* Specification of the first line: one command on a new client, for each  *)
(* command with one set of arguments and a reply of one line.              *)
(***************************************************************************)
\* "-<code>" and "-<code> <text>"
ErrLine(code) == <<"-">> \o code

ErrLineText(code, text) == <<"-">> \o code \o <<SP>> \o text

CodeE == <<"E">>

CodeERR == <<"E", "R", "R">>

CodeNotFound == <<"N", "O", "T", "-", "F", "O", "U", "N", "D">>

\* Error lines with a code and, when there is a space, a text
GoodErrLines ==
    {ErrLine(c) : c \in {CodeE, <<"E", "R">>, CodeERR, CodeNotFound}}
    \cup {TimedOut}
    \cup {ErrLineText(c, t) :
            c \in {CodeE, CodeERR},
            t \in {<<"x">>, <<"a", SP, "b">>, <<SP>>}}

\* Error lines without a code, or with a space and no text after it
BadErrLines ==
    {<<"-">>, <<"-", SP>>, <<"-", SP, SP>>, <<"-", SP, "x">>}
    \cup {ErrLine(c) \o <<SP>> : c \in {CodeE, CodeERR, CodeNotFound}}

\* Lines that begin with the success marker
OkLines ==
    {OKLine, OKLine \o <<"x">>, OKLine \o <<SP>>, OKLine \o <<LF>>,
     OKLine \o <<"1">>}
    \cup {OKCount(c) :
            c \in {<<"0">>, <<"1">>, <<"0", "0">>, <<"+", "0">>, <<"-", "0">>,
                   <<"-", "1">>, <<"x">>, <<"1", "x">>, <<"1", SP>>,
                   <<SP, "1">>, <<>>}}
    \cup {OKLine \o <<"x", "0">>, OKLine \o <<"x", "1">>}

\* Lines that begin with neither sign
OtherLines ==
    {<<>>, <<"*", "O", "K">>, CodeNotFound, <<"O", "K">>,
     <<"*", "O", "K", SP, "1">>}

LineReplies ==
    {Reply(first, <<>>, <<>>) :
        first \in GoodErrLines \cup BadErrLines \cup OkLines \cup OtherLines}

NextLine ==
    \/ Idle /\ \E resp \in Responses(LineReplies) : Add(BgJob1, resp)
    \/ Idle /\ \E resp \in Responses(LineReplies) : Run(FgJob1, resp)
    \/ Idle /\ \E resp \in Responses(LineReplies) : Schedule(ScheduledJob1, resp)
    \/ Idle /\ \E resp \in Responses(LineReplies) : Result(ResultArgs1, resp)
    \/ Idle /\ \E resp \in Responses(LineReplies) : Lease(LeaseArgs1, resp)
    \/ Idle /\ \E resp \in Responses(LineReplies) : Complete(CompleteArgs1, resp)
    \/ Idle /\ \E resp \in Responses(LineReplies) : Fail(CompleteArgs1, resp)
    \/ Idle /\ \E resp \in Responses(LineReplies) : Delete(DeleteArgs1, resp)
    \/ Idle /\ \E resp \in Responses(LineReplies) : InspectJobs(InspectArgs1, resp)
    \/ ConnEnd

SpecLine == Init /\ [][NextLine]_vars

(***************************************************************************)
(* Specification of the line terminator: one command on a new client, for  *)
(* each command with one set of arguments and a reply whose first line     *)
(* has a LF or a CR of its own.                                            *)
(***************************************************************************)
\* First lines that end with a LF without CR: when the CR LF of the reply
\* follows, the line that the client reads ends at that LF
BareLfLines ==
    {<<LF>>, <<"a", LF>>, OKLine \o <<LF>>, OKLine \o <<"x", LF>>,
     OKCount(<<"1">>) \o <<"x", LF>>, TimedOut \o <<LF>>,
     ErrLineText(CodeERR, <<"x", "y", LF>>)}

\* First lines that end with CR LF in the reply, some with a CR inside
CrLfLines ==
    {OKLine, OKCount(<<"0">>), TimedOut, ErrLine(CodeNotFound),
     ErrLineText(CodeERR, <<"x", CR, "y">>), <<CR>>, OKLine \o <<CR>>,
     ErrLineText(CodeERR, <<"x", CR>>)}

TermReplies ==
    {Reply(first, <<>>, <<>>) : first \in BareLfLines \cup CrLfLines}

NextTerm ==
    \/ Idle /\ \E resp \in Responses(TermReplies) : Add(BgJob1, resp)
    \/ Idle /\ \E resp \in Responses(TermReplies) : Run(FgJob1, resp)
    \/ Idle /\ \E resp \in Responses(TermReplies) : Schedule(ScheduledJob1, resp)
    \/ Idle /\ \E resp \in Responses(TermReplies) : Result(ResultArgs1, resp)
    \/ Idle /\ \E resp \in Responses(TermReplies) : Lease(LeaseArgs1, resp)
    \/ Idle /\ \E resp \in Responses(TermReplies) : Complete(CompleteArgs1, resp)
    \/ Idle /\ \E resp \in Responses(TermReplies) : Fail(CompleteArgs1, resp)
    \/ Idle /\ \E resp \in Responses(TermReplies) : Delete(DeleteArgs1, resp)
    \/ Idle /\ \E resp \in Responses(TermReplies) : InspectJobs(InspectArgs1, resp)
    \/ ConnEnd

SpecTerm == Init /\ [][NextTerm]_vars

(***************************************************************************)
(* Specification: commands one after another on one client, and Close.     *)
(* The server answers every command with a well-formed response; it may    *)
(* send the response to the next command right behind.                     *)
(***************************************************************************)
\* The largest number of commands written to the connection
MaxCmds == 2

ErrReply == Reply(TimedOut, <<>>, <<>>)

SeqAckReplies == {Reply(OKLine, <<>>, <<>>), ErrReply}

SeqResultReplies == {ResultReply(<<"1">>, <<"a">>), ErrReply}

\* Leased-job records "<id> <name> <length>" and "<id> <name> <ttr> <length>"
SeqLeaseReplies ==
    {LeaseReplyOf(<<"1">>, <<ID1, NameJ1, <<"1">>>>, <<"a">>, crnl, <<>>),
     LeaseReplyOf(<<"1">>, <<ID1, NameJ1, TTR60, <<"1">>>>, <<"a">>, crnl,
                  <<>>),
     ErrReply}

\* What the server may send behind a response: nothing, or the response
\* to the next command
SeqTails ==
    {<<>>, Render(Reply(OKLine, <<>>, <<>>)),
     Render(ResultReply(<<"1">>, <<"a">>))}

\* The reads that deliver a response b and what follows it: all in one
\* read, or a first read that ends before the last byte of the response
SeqDeliveries(b, tail) ==
    {<<b \o tail>>, <<Take(b, Len(b) - 1), Drop(b, Len(b) - 1) \o tail>>}

\* The responses to the next command: the one that the server sent behind
\* the last response, if it did, and otherwise one of the replies
SeqResponses(replies) ==
    IF cur.reply.tail # <<>>
    THEN {[reply |-> rp, chunks |-> <<>>, eof |-> FALSE] :
            rp \in {q \in replies : Render(q) = cur.reply.tail}}
    ELSE UNION {{[reply |-> [rt[1] EXCEPT !.tail = rt[2]], chunks |-> c,
                  eof |-> FALSE] :
                    c \in SeqDeliveries(Render(rt[1]), rt[2])} :
                rt \in replies \X (IF Len(conn.wrt) + 1 < MaxCmds
                                   THEN SeqTails ELSE {<<>>})}

\* The client is not in a call and may write a command
Ready == pc = "idle" /\ Len(conn.wrt) < MaxCmds

NextSeq ==
    \/ Ready /\ \E resp \in SeqResponses(SeqAckReplies) : Add(BgJob1, resp)
    \/ Ready /\ \E resp \in SeqResponses(SeqResultReplies) : Run(FgJob1, resp)
    \/ Ready /\ \E resp \in SeqResponses(SeqAckReplies) : Schedule(ScheduledJob1, resp)
    \/ Ready /\ \E resp \in SeqResponses(SeqResultReplies) : Result(ResultArgs1, resp)
    \/ Ready /\ \E resp \in SeqResponses(SeqLeaseReplies) : Lease(LeaseArgs1, resp)
    \/ Ready /\ \E resp \in SeqResponses(SeqAckReplies) : Complete(CompleteArgs1, resp)
    \/ Ready /\ \E resp \in SeqResponses(SeqAckReplies) : Fail(CompleteArgs1, resp)
    \/ Ready /\ \E resp \in SeqResponses(SeqAckReplies) : Delete(DeleteArgs1, resp)
    \/ Close
    \/ Return

SpecSeq == Init /\ [][NextSeq]_vars

(***************************************************************************)
(* Specification: one Run or InspectJobs whose caller waits for it to      *)
(* return.  The client takes every step it can take.  The server has sent  *)
(* its response and waits for the next command: nothing obliges it to      *)
(* send another byte or to close the connection.                           *)
(***************************************************************************)
\* The responses with these replies, in one read or in two of which the
\* second holds the last byte, on a connection that stays open or ends
LiveResponses(replies) ==
    UNION {{[reply |-> rp, chunks |-> c, eof |-> e] :
                c \in SeqDeliveries(Render(rp), <<>>), e \in BOOLEAN} :
           rp \in replies}

LiveResultResponses == LiveResponses(ResultReplies)

LiveInspectResponses == LiveResponses(InspectReplies \cup FullInspectReplies)

\* The reader of a client that has read nothing yet, once the response is
\* on its way
NewReader(resp) == [buf |-> <<>>, in |-> resp.chunks, eof |-> resp.eof]

\* What the first command of a client decodes from each response
RunDecoded ==
    [resp \in LiveResultResponses |-> DecodeResult(NewReader(resp))]

InspectDecoded ==
    [resp \in LiveInspectResponses |-> DecodeInspect(NewReader(resp))]

RunWritten == RunBytes(FgJob1)

InspectWritten == InspectJobsBytes(InspectArgs1)

\* Run as the first command of the client
LiveRun ==
    Idle /\ \E resp \in LiveResultResponses :
                Command("Run", FgJob1, RunWritten, resp, RunDecoded[resp])

\* InspectJobs as the first command of the client
LiveInspectJobs ==
    Idle /\ \E resp \in LiveInspectResponses :
                Command("InspectJobs", InspectArgs1, InspectWritten, resp,
                        InspectDecoded[resp])

NextLive ==
    \/ LiveRun
    \/ LiveInspectJobs
    \/ ConnEnd

SpecLive ==
    Init /\ [][NextLive]_vars /\ WF_vars(LiveRun \/ LiveInspectJobs)

(***************************************************************************)
(* Specification: two threads that call Result on one client.  The Client  *)
(* holds no lock (client.go 40-45): a call is a write to the connection    *)
(* and then the reads of the parser, and the steps of the two calls come   *)
(* in any order.  pc, cur and ret have one value for each thread.  The     *)
(* reads of one response are taken as one step of the thread that reads.   *)
(***************************************************************************)
Threads == {1, 2}

\* Each thread asks for the result of a job of its own
ParArgs(t) == [ID |-> IF t = 1 THEN ID1 ELSE ID2, Timeout |-> 1000]

\* The result that the server holds for the job of each thread
ParBlock(t) == IF t = 1 THEN <<"a">> ELSE <<"b">>

\* The server's replies to the command of thread t
ParReplies(t) ==
    {ResultReplyOf(<<"1">>, <<ParArgs(t).ID, <<"1">>, <<"1">>>>, ParBlock(t),
                   crnl, <<>>),
     ErrReply}

InitPar ==
    /\ conn = [in |-> <<>>, eof |-> FALSE, wrt |-> <<>>, bad |-> FALSE,
               closed |-> FALSE, served |-> 0]
    /\ rdr = <<>>
    /\ pc = [t \in Threads |-> "idle"]
    /\ cur = [t \in Threads |-> NoCmd]
    /\ ret = [t \in Threads |-> NoRet]

\* Result, up to c.conn.Write(r)
ParWrite(t) ==
    /\ pc[t] = "idle"
    /\ conn' = [conn EXCEPT !.wrt = Append(@, ResultBytes(ParArgs(t)))]
    /\ pc' = [pc EXCEPT ![t] = "written"]
    /\ cur' = [cur EXCEPT ![t] = [NoCmd EXCEPT !.op = "Result",
                                               !.args = ParArgs(t)]]
    /\ UNCHANGED <<rdr, ret>>

\* The thread whose command is the next that the server answers
NextServed ==
    CHOOSE t \in Threads : conn.wrt[conn.served + 1] = ResultBytes(ParArgs(t))

\* The server answers the commands in the order in which they arrived
Serve ==
    /\ conn.served < Len(conn.wrt)
    /\ \E rp \in ParReplies(NextServed) :
         \E c \in SeqDeliveries(Render(rp), <<>>) :
            /\ conn' = [conn EXCEPT !.in = @ \o c, !.served = @ + 1]
            /\ cur' = [cur EXCEPT ![NextServed].reply = rp,
                                  ![NextServed].chunks = c]
    /\ UNCHANGED <<rdr, pc, ret>>

\* Result, from c.parser.parseOkWithReply() on; d is its outcome
ParReadWith(t, d) ==
    /\ d.err # Blocked
    /\ pc' = [pc EXCEPT ![t] = "done"]
    /\ ret' = [ret EXCEPT ![t] = [err |-> d.err, val |-> d.val]]
    /\ rdr' = d.r.buf
    /\ conn' = [conn EXCEPT !.in = d.r.in]
    /\ UNCHANGED cur

ParRead(t) == pc[t] = "written" /\ ParReadWith(t, DecodeResult(Reader))

NextPar ==
    \/ \E t \in Threads : ParWrite(t)
    \/ Serve
    \/ \E t \in Threads : ParRead(t)

SpecPar == InitPar /\ [][NextPar]_vars

(***************************************************************************)
(* Specification: up to MaxCmds commands, one after another on one client, *)
(* over responses of every kind: well-formed ones, server errors, lines    *)
(* that are no response, reply counts other than 1 with a record behind    *)
(* them, and records that the command rejects.                             *)
(***************************************************************************)

\* A line that is no response
NoReply == Reply(<<"x">>, <<>>, <<>>)

AnyAckReplies ==
    SeqAckReplies \cup {NoReply, Reply(OKCount(<<"1">>), <<>>, <<>>)}

AnyResultReplies ==
    SeqResultReplies \cup {NoReply}
    \cup {ResultReplyOf(count, <<ID1, <<"1">>, <<"1">>>>, <<"a">>, crnl, <<>>) :
            count \in {<<"0">>, <<"2">>, <<"x">>}}
    \cup {ResultReplyOf(<<"1">>, fields, <<"a">>, crnl, <<>>) :
            fields \in {<<ID1, <<"1">>>>, <<ID1, <<"2">>, <<"1">>>>,
                        <<ID1, <<"1">>, <<"x">>>>}}
    \cup {ResultReplyOf(<<"1">>, <<ID1, <<"1">>, <<"1">>>>, <<"a">>,
                        <<"x", "y">>, <<>>)}

AnyLeaseReplies ==
    SeqLeaseReplies \cup {NoReply}
    \cup {LeaseReplyOf(count, <<ID1, NameJ1, TTR60, <<"1">>>>, <<"a">>, crnl,
                       <<>>) : count \in {<<"0">>, <<"2">>}}
    \cup {LeaseReplyOf(<<"1">>, <<ID1, BadName, TTR60, <<"1">>>>, <<"a">>,
                       crnl, <<>>)}

AnyInspectReplies ==
    {ErrReply, NoReply, Reply(OKCount(<<"x">>), PlainRecord(ID1), <<>>)}

NextAny ==
    \/ Ready /\ \E resp \in SeqResponses(AnyAckReplies) : Add(BgJob1, resp)
    \/ Ready /\ \E resp \in SeqResponses(AnyResultReplies) : Run(FgJob1, resp)
    \/ Ready /\ \E resp \in SeqResponses(AnyAckReplies) :
            Schedule(ScheduledJob1, resp)
    \/ Ready /\ \E resp \in SeqResponses(AnyResultReplies) :
            Result(ResultArgs1, resp)
    \/ Ready /\ \E resp \in SeqResponses(AnyLeaseReplies) :
            Lease(LeaseArgs1, resp)
    \/ Ready /\ \E resp \in SeqResponses(AnyAckReplies) :
            Complete(CompleteArgs1, resp)
    \/ Ready /\ \E resp \in SeqResponses(AnyAckReplies) :
            Fail(CompleteArgs1, resp)
    \/ Ready /\ \E resp \in SeqResponses(AnyAckReplies) :
            Delete(DeleteArgs1, resp)
    \/ Ready /\ \E resp \in SeqResponses(AnyInspectReplies) :
            InspectJobs(InspectArgs1, resp)
    \/ Close
    \/ Return

SpecAny == Init /\ [][NextAny]_vars

(***************************************************************************)
(* Properties.  What the claims say of the bytes a command wrote is said   *)
(* of the bytes themselves: the line up to the first CR LF, its fields     *)
(* between spaces, and what follows the line.                              *)
(***************************************************************************)
\* The command was written to the connection
Sent == pc # "idle" /\ ~conn.bad

\* CR LF stands at place i of s
IsCrlf(s, i) == i < Len(s) /\ s[i] = CR /\ s[i + 1] = LF

\* The place of the first CR LF of s at or after i, 0 when there is none
CrlfAt(s, i) ==
    IF \E k \in i..Len(s) : IsCrlf(s, k)
    THEN CHOOSE k \in i..Len(s) :
            IsCrlf(s, k) /\ \A m \in i..(k - 1) : ~IsCrlf(s, m)
    ELSE 0

FirstLine(w) == Take(w, CrlfAt(w, 1) - 1)

AfterLine(w) == Drop(w, CrlfAt(w, 1) + 1)

\* The fields of the command line that was written
SentFields == Split(FirstLine(conn.wrt[1]))

\* A command word without the space that follows it
Word(w) == Take(w, Len(w) - 1)

PayloadOps == {"Add", "Run", "Schedule", "Complete", "Fail"}

\* The fields before the length field, by command
Mandatory(op, a) ==
    IF op = "Add"
    THEN <<Word(W.add), a.ID, a.Name, Itoa(a.TTR), Itoa(a.TTL)>>
    ELSE IF op = "Run"
    THEN <<Word(W.run), a.ID, a.Name, Itoa(a.TTR), Itoa(a.Timeout)>>
    ELSE IF op = "Schedule"
    THEN <<Word(W.schedule), a.ID, a.Name, Itoa(a.TTR), Itoa(a.TTL), a.Time>>
    ELSE IF op = "Complete" THEN <<Word(W.complete), a.ID>>
    ELSE <<Word(W.fail), a.ID>>

\* The block a command carries
BlockOf(op, a) == IF op \in {"Complete", "Fail"} THEN a.Result ELSE a.Payload

\* The place of the length field in the command line
LenAt(op, a) == Len(Mandatory(op, a)) + 1

C1_Scenario ==
    W.add \o ID1
    \o <<SP, "j", "1", SP, "6", "0", SP, "6", "0", "0", "0", "0", SP, "1",
         CR, LF, "a", CR, LF>>

\* What C1 says of the bytes w that op wrote for the arguments a; fields
\* are the fields of the first line of w
C1_Line(op, a, w, fields) ==
    /\ CrlfAt(w, 1) > 0
    /\ \A i \in 1..Len(fields) : fields[i] # <<>>
    /\ Len(fields) >= LenAt(op, a)
    /\ SubSeq(fields, 1, LenAt(op, a) - 1) = Mandatory(op, a)
    /\ fields[LenAt(op, a)] = Itoa(Len(BlockOf(op, a)))
    /\ \A i \in (LenAt(op, a) + 1)..Len(fields) : fields[i][1] = "-"
    /\ op \in {"Complete", "Fail"} => Len(fields) = LenAt(op, a)
    /\ AfterLine(w) = BlockOf(op, a) \o crnl

\* C1: Add, Run, Schedule, Complete and Fail write one line of fields
\* separated by exactly one space: the command word, the mandatory fields,
\* the length L of the block in bytes, then flags only; the line's CR LF is
\* followed by the block and CR LF and nothing else.  The job of the
\* scenario is written as the scenario's bytes, and Add returns no error
\* when the server answers "+OK".
C1_Encoding ==
    /\ (Sent /\ cur.op \in PayloadOps) =>
          /\ Len(conn.wrt) = 1
          /\ C1_Line(cur.op, cur.args, conn.wrt[1], SentFields)
    /\ (Sent /\ cur.op = "Add" /\ cur.args = BgJob1)
          => conn.wrt = <<C1_Scenario>>
    /\ (Sent /\ cur.op = "Add" /\ cur.reply = Reply(OKLine, <<>>, <<>>)
          /\ pc = "done") => ret.err = Nil

\* Add wrote a job whose payload holds a two-byte character and a CR, the
\* server answered "+OK" in two reads, and Add returned no error.
C1_Witness ==
    /\ pc = "done" /\ ~conn.bad /\ cur.op = "Add"
    /\ cur.args.Payload = <<"xC3", "xA9", CR>>
    /\ cur.args.Priority = 7
    /\ cur.reply = Reply(OKLine, <<>>, <<>>)
    /\ Len(cur.chunks) = 2
    /\ ret.err = Nil
    /\ SentFields[6] = <<"3">>

\* The flag fields of the command line that was written
SentFlags == SubSeq(SentFields, LenAt(cur.op, cur.args) + 1, Len(SentFields))

\* The places of "<name><value>" among the flag fields
FlagAt(flags, name, value) ==
    {i \in 1..Len(flags) : flags[i] = name \o Itoa(value)}

\* The flag fields that begin with name
Named(flags, name) ==
    {i \in 1..Len(flags) : Take(flags[i], Len(name)) = name}

\* A flag is written once with its value when the value is not zero, and
\* not at all when it is zero
FlagIff(flags, name, value) ==
    /\ Named(flags, name) = FlagAt(flags, name, value)
    /\ Cardinality(FlagAt(flags, name, value)) = IF value # 0 THEN 1 ELSE 0

\* Every flag field named a comes before every flag field named b
Before(flags, a, b) ==
    \A i \in Named(flags, a), k \in Named(flags, b) : i < k

\* What C2 says of the flag fields that Add and Schedule wrote for job j
C2_Three(j, flags) ==
    /\ FlagIff(flags, F.priority, j.Priority)
    /\ FlagIff(flags, F.max_attempts, j.MaxAttempts)
    /\ FlagIff(flags, F.max_fails, j.MaxFails)
    /\ Named(flags, F.priority) \cup Named(flags, F.max_attempts)
          \cup Named(flags, F.max_fails) = 1..Len(flags)
    /\ Before(flags, F.priority, F.max_attempts)
    /\ Before(flags, F.priority, F.max_fails)
    /\ Before(flags, F.max_attempts, F.max_fails)
    /\ (j.Priority = 0 /\ j.MaxAttempts = 0 /\ j.MaxFails = 0)
          => flags = <<>>

\* What C2 says of the flag fields that Run wrote for job j
C2_One(j, flags) ==
    /\ FlagIff(flags, F.priority, j.Priority)
    /\ Named(flags, F.priority) = 1..Len(flags)
    /\ j.Priority = 0 => flags = <<>>

\* Single spaces only: no field of the line is empty
C2_Spaces(line, fields) ==
    /\ \A i \in 1..Len(fields) : fields[i] # <<>>
    /\ line = Join(fields)

\* C2: in the line of Add and Schedule each of priority, max-attempts and
\* max-fails is written as "-name=value" exactly when its value is not
\* zero, in that order, each flag one space after the field before it, and
\* with all three zero the length field ends the line.  Run writes
\* "-priority=<n>" by the same rule and no other flag.
C2_Flags ==
    /\ (Sent /\ cur.op \in {"Add", "Schedule"})
          => C2_Three(cur.args, SentFlags)
    /\ (Sent /\ cur.op = "Run") => C2_One(cur.args, SentFlags)
    /\ (Sent /\ cur.op \in {"Add", "Schedule", "Run"})
          => C2_Spaces(FirstLine(conn.wrt[1]), SentFields)

\* Schedule wrote a job with a negative priority and max-fails, and no
\* max-attempts: two flags, in that order.
C2_Witness ==
    /\ Sent /\ cur.op = "Schedule"
    /\ cur.args.Priority = -3 /\ cur.args.MaxAttempts = 0
    /\ cur.args.MaxFails = 2
    /\ SentFlags = <<F.priority \o <<"-", "3">>, F.max_fails \o <<"2">>>>

\* The fields of a command without a block
PlainFields(op, a) ==
    IF op = "Result" THEN <<Word(W.result), a.ID, Itoa(a.Timeout)>>
    ELSE IF op = "Lease"
    THEN <<Word(W.lease)>> \o a.Names \o <<Itoa(a.Timeout)>>
    ELSE IF op = "Delete" THEN <<Word(W.delete), a.ID>>
    ELSE Split(Word(W.inspect))
         \o <<a.Name, Itoa(a.CursorOffset), Itoa(a.Limit)>>

\* C3: Result, Lease, Delete and InspectJobs write exactly one line ended
\* by CR LF and nothing after it; the fields of the line, each one space
\* after the one before, are the command word and the arguments, for Lease
\* all the names in the given order and then the timeout.
C3_PlainCommands ==
    (Sent /\ cur.op \in {"Result", "Lease", "Delete", "InspectJobs"}) =>
        /\ Len(conn.wrt) = 1
        /\ CrlfAt(conn.wrt[1], 1) > 0
        /\ SentFields = PlainFields(cur.op, cur.args)
        /\ AfterLine(conn.wrt[1]) = <<>>

\* Lease was called with two different names and wrote them in the order
\* given.
C3_Witness ==
    /\ Sent /\ cur.op = "Lease"
    /\ cur.args.Names = <<NameAB, NameJ1>>
    /\ SentFields = <<Word(W.lease), NameAB, NameJ1, Itoa(cur.args.Timeout)>>

(***************************************************************************)
(* Properties of the decoders.  A reply is told by its description: the    *)
(* count line, the record lines, and the block of the last record with     *)
(* its declared length (the last field of the line before it).             *)
(***************************************************************************)
\* The command returned after its bytes were written
Done == pc = "done" /\ ~conn.bad

RECURSIVE Flatten(_)
Flatten(chunks) ==
    IF chunks = <<>> THEN <<>> ELSE Head(chunks) \o Flatten(Tail(chunks))

\* The bytes of the response that the client has not consumed
Unread == rdr \o Flatten(conn.in)

\* s ends with the bytes e
EndsWith(s, e) == Len(s) >= Len(e) /\ Drop(s, Len(s) - Len(e)) = e

CountedOps == {"Run", "Result", "Lease", "InspectJobs"}

LastPart(rp) == rp.parts[Len(rp.parts)]

\* The length that the line before a block declares
DeclaredLen(p) == p.line[Len(p.line)]

\* The block has its declared length and is followed by CR LF
WellFormedBlock(p) ==
    p.has /\ p.term = crnl /\ DeclaredLen(p) = Itoa(Len(p.block))

\* "+OK 1", then one record of a line and a block, and nothing more
OneBlockRecord(rp) ==
    /\ rp.first = OKCount(<<"1">>)
    /\ Len(rp.parts) = 1
    /\ rp.parts[1].has /\ rp.parts[1].marker = <<>>

\* "+OK 1", "<id> <0|1> <length>", <length> bytes, CR LF
ResultRecord(rp) ==
    /\ OneBlockRecord(rp) /\ rp.tail = <<>>
    /\ WellFormedBlock(rp.parts[1])
    /\ Len(rp.parts[1].line) = 3
    /\ rp.parts[1].line[2] \in {<<"0">>, <<"1">>}

\* "+OK 1", then a record line with another flag or not of three fields
BadResultLine(rp) ==
    /\ OneBlockRecord(rp)
    /\ \/ Len(rp.parts[1].line) # 3
       \/ rp.parts[1].line[2] \notin {<<"0">>, <<"1">>}

\* C4: Run and Result decode "+OK 1", "<id> <flag> <length>" with flag 0
\* or 1, <length> block bytes and CR LF to a JobResult with Success true
\* exactly for flag 1 and Result the block bytes; another flag token, or
\* a record line not of three fields, gives ErrMalformed.
C4_ResultDecoding ==
    (Done /\ cur.op \in {"Run", "Result"}) =>
        /\ ResultRecord(cur.reply) =>
              ret = [err |-> Nil,
                     val |-> <<[Success |->
                                   cur.reply.parts[1].line[2] = <<"1">>,
                                Result |-> cur.reply.parts[1].block]>>]
        /\ BadResultLine(cur.reply) => ret.err = ErrMalformed

\* "+OK 1", "<id> <name> <length>" with a valid id and name, <length>
\* bytes, CR LF
LeaseRecord(rp) ==
    /\ OneBlockRecord(rp) /\ rp.tail = <<>>
    /\ WellFormedBlock(rp.parts[1])
    /\ Len(rp.parts[1].line) = 3
    /\ idFromString(rp.parts[1].line[1]).err = Nil
    /\ nameFromString(rp.parts[1].line[2]).err = Nil

\* C5: Lease decodes "+OK 1", "<id> <name> <length>" with a valid id and
\* name, <length> payload bytes and CR LF without error to a LeasedJob
\* with that id, name and payload.
C5_LeaseDecoding ==
    (Done /\ cur.op = "Lease" /\ LeaseRecord(cur.reply)) =>
        /\ ret.err = Nil
        /\ Len(ret.val) = 1
        /\ ret.val[1].ID = cur.reply.parts[1].line[1]
        /\ ret.val[1].Name = cur.reply.parts[1].line[2]
        /\ ret.val[1].Payload = cur.reply.parts[1].block

\* "+OK 1", "<id> <key-count>", key lines, and last "payload-size
\* <length>", "payload ", <length> bytes, CR LF
InspectPayloadRecord(rp) ==
    /\ rp.first = OKCount(<<"1">>) /\ rp.tail = <<>>
    /\ Len(rp.parts) >= 2
    /\ \A i \in 1..(Len(rp.parts) - 1) : ~rp.parts[i].has
    /\ Len(rp.parts[1].line) = 2
    /\ idFromString(rp.parts[1].line[1]).err = Nil
    /\ rp.parts[1].line[2]
          \in {Itoa(Len(rp.parts) - 1), Itoa(Len(rp.parts))}
    /\ WellFormedBlock(LastPart(rp))
    /\ LastPart(rp).marker = payloadKey
    /\ LastPart(rp).line = <<Key.payload_size,
                              Itoa(Len(LastPart(rp).block))>>

\* The server's reply echoes a block in a well-formed record
EchoRecord(op, rp) ==
    IF op \in {"Run", "Result"} THEN ResultRecord(rp)
    ELSE IF op = "Lease" THEN LeaseRecord(rp)
    ELSE InspectPayloadRecord(rp)

\* The block that the command returned
ReturnedBlock(op, val) ==
    IF op \in {"Run", "Result"} THEN val[1].Result ELSE val[1].Payload

\* C6: a block written with its length by Add, Run, Schedule, Complete or
\* Fail is followed by CR LF whatever its bytes, and a block echoed with
\* its length in a job-result, leased-job or inspected-job record is
\* returned to the caller as exactly its bytes.
C6_BinarySafe ==
    /\ (Sent /\ cur.op \in PayloadOps) =>
          /\ SentFields[LenAt(cur.op, cur.args)]
                = Itoa(Len(BlockOf(cur.op, cur.args)))
          /\ AfterLine(conn.wrt[1]) = BlockOf(cur.op, cur.args) \o crnl
    /\ (Done /\ cur.op \in CountedOps /\ EchoRecord(cur.op, cur.reply)) =>
          /\ ret.err = Nil
          /\ Len(ret.val) = 1
          /\ ReturnedBlock(cur.op, ret.val) = LastPart(cur.reply).block

\* The number n, as parsed from a length field, is in [0, maxDataBlock]
InRange(n) == ~n.err /\ n.n.big = 0 /\ n.n.v >= 0 /\ n.n.v <= maxDataBlock

\* The last record declares a length in [0, maxDataBlock] and the reply
\* ends before the block and its terminator are complete
Truncated(rp) ==
    /\ rp.first = OKCount(<<"1">>) /\ rp.tail = <<>>
    /\ rp.parts # <<>>
    /\ LastPart(rp).has
    /\ InRange(ParseUint(DeclaredLen(LastPart(rp)), 64))
    /\ Len(LastPart(rp).block) + Len(LastPart(rp).term)
          < ParseUint(DeclaredLen(LastPart(rp)), 64).n.v + termLen

\* C7: when a record declares a block length n and the stream ends with
\* fewer than n + 2 bytes after it, Run, Result, Lease and InspectJobs
\* return ErrMalformed and a nil value.
C7_TruncatedBlock ==
    (Done /\ cur.op \in CountedOps /\ conn.eof /\ Truncated(cur.reply)) =>
        ret = [err |-> ErrMalformed, val |-> <<>>]

\* The last record declares a length below 0 or above maxDataBlock
OutOfRange(rp) ==
    /\ rp.first = OKCount(<<"1">>)
    /\ rp.parts # <<>>
    /\ LastPart(rp).has
    /\ DeclaredLen(LastPart(rp)) \in {Len_neg1, Len_max1, Len_2p63, Len_2p64}

\* C8: a declared length below 0 or above 1048576 is rejected with
\* ErrMalformed and the block after it is not read, in job-result,
\* leased-job and inspected-job records; the lengths 0 and 1048576 are
\* accepted.  Stated of the replies that arrive in one read, and the
\* length 0 of job-result and inspected-job records.
C8_LengthRange ==
    (Done /\ cur.op \in CountedOps /\ Len(cur.chunks) = 1) =>
        /\ OutOfRange(cur.reply) =>
              /\ ret = [err |-> ErrMalformed, val |-> <<>>]
              /\ EndsWith(Unread, LastPart(cur.reply).block
                                      \o LastPart(cur.reply).term)
        /\ (cur.op # "Lease" /\ EchoRecord(cur.op, cur.reply)
              /\ LastPart(cur.reply).block = <<>>) => ret.err = Nil
        /\ (cur.reply.parts # <<>> /\ LastPart(cur.reply).has
              /\ DeclaredLen(LastPart(cur.reply)) = Len_max /\ conn.eof)
              => Unread = <<>>

\* The ids of the records of an inspected-jobs reply, in stream order
RecordIDs(parts) ==
    LET heads == SelectSeq(parts, LAMBDA p : IsUUID(p.line[1]))
    IN  [i \in 1..Len(heads) |-> heads[i].line[1]]

\* The ids of the jobs that InspectJobs returned
ReturnedIDs(val) == [i \in 1..Len(val) |-> val[i].ID]

\* The count line is "+OK <c>" with c another number than 1
CountNotOne(rp) ==
    \E c \in {<<"0">>, <<"2">>, <<"-", "1">>} : rp.first = OKCount(c)

\* C9: Run, Result and Lease return ErrMalformed for a reply count other
\* than 1; InspectJobs with reply count k returns an error or exactly k
\* jobs, the first k records of the stream in their order, so never a
\* success with fewer records than the count.
C9_ReplyCount ==
    /\ (Done /\ cur.op \in {"Run", "Result", "Lease"}
          /\ CountNotOne(cur.reply))
          => ret = [err |-> ErrMalformed, val |-> <<>>]
    /\ (Done /\ cur.op = "InspectJobs" /\ ret.err = Nil) =>
          \E k \in 0..MaxReplies :
              /\ cur.reply.first = OKCount(Itoa(k))
              /\ Len(ret.val) = k
              /\ Len(RecordIDs(cur.reply.parts)) >= k
              /\ ReturnedIDs(ret.val)
                    = SubSeq(RecordIDs(cur.reply.parts), 1, k)

\* InspectJobs returned the two jobs of a reply with count 2, in the
\* order of the stream.
C9_Witness ==
    /\ Done /\ cur.op = "InspectJobs"
    /\ cur.reply.first = OKCount(<<"2">>)
    /\ ret.err = Nil
    /\ ReturnedIDs(ret.val) = <<ID2, ID1>>

Error(e) == IF e.text # <<>> THEN e.code \o <<SP>> \o e.text ELSE e.code

\* The line begins with the sign of an error
IsErrLine(l) == l # <<>> /\ l[1] = "-"

\* The code of an error line: what stands between the sign and the first
\* space, or the end of the line
CodeOf(l) ==
    IF IndexOf(l, SP) = 0 THEN Tail(l) ELSE SubSeq(l, 2, IndexOf(l, SP) - 1)

\* The text of an error line: what stands after the first space
TextOf(l) == IF IndexOf(l, SP) = 0 THEN <<>> ELSE Drop(l, IndexOf(l, SP))

\* "-<code>" or "-<code> <text>" with a code and, after a space, a text
WellFormedErr(l) ==
    /\ IsErrLine(l)
    /\ CodeOf(l) # <<>>
    /\ IndexOf(l, SP) # 0 => TextOf(l) # <<>>

\* C14: for every command, an error line "-<code>" or "-<code> <text>"
\* with a code of one character or more and, when present, a text that is
\* not empty is returned as a ResponseError with that code and that text,
\* whose Error() is the line without its sign.
C14_ErrorLine ==
    (Done /\ WellFormedErr(cur.reply.first)) =>
        /\ ret.err = NewResponseError(CodeOf(cur.reply.first),
                                      TextOf(cur.reply.first))
        /\ Error(ret.err) = Tail(cur.reply.first)

\* C15: an error line with an empty code, or with a space and an empty
\* text after the code, makes every command return ErrMalformed.
C15_EmptyToken ==
    (Done /\ IsErrLine(cur.reply.first) /\ ~WellFormedErr(cur.reply.first))
        => ret.err = ErrMalformed

\* Lease read "-NOT-FOUND " and returned ErrMalformed.
C15_Witness ==
    /\ Done /\ cur.op = "Lease"
    /\ cur.reply.first = ErrLine(CodeNotFound) \o <<SP>>
    /\ ret.err = ErrMalformed

\* The line begins with neither sign
NoSign(l) == l = <<>> \/ l[1] \notin {"+", "-"}

\* The line is "+OK" followed by one character or more
OkAndMore(l) == Len(l) > 3 /\ Take(l, 3) = OKLine

\* C16: Add, Schedule, Complete, Fail and Delete return nil exactly when
\* the line is "+OK"; a line that begins with neither "+" nor "-", and a
\* line "+OK" with a character after it, give ErrMalformed.
C16_SimpleAck ==
    (Done /\ cur.op \in OkOps) =>
        /\ ret.err = Nil <=> cur.reply.first = OKLine
        /\ (NoSign(cur.reply.first) \/ OkAndMore(cur.reply.first))
              => ret.err = ErrMalformed

\* Delete read "+OKx" and returned ErrMalformed.
C16_Witness ==
    /\ Done /\ cur.op = "Delete"
    /\ cur.reply.first = OKLine \o <<"x">>
    /\ ret.err = ErrMalformed

\* "+OK", a space and decimal digits
IsOKCount(l) ==
    /\ Len(l) >= 5
    /\ Take(l, 4) = OKLine \o <<SP>>
    /\ \A i \in 5..Len(l) : IsDigit(l[i])

\* C17: Run, Result, Lease and InspectJobs return ErrMalformed for a
\* first line that is no error line and is not "+OK", one space and a
\* decimal integer without sign with nothing after it.
C17_CountLine ==
    (Done /\ cur.op \in CountedOps /\ ~IsErrLine(cur.reply.first)
        /\ ~IsOKCount(cur.reply.first))
        => ret.err = ErrMalformed

\* C18: when the write of a command fails, the command returns a NetError
\* and a nil value without waiting, nothing was written a second time and
\* nothing was read from the stream.
C18_WriteFailure ==
    (conn.bad /\ pc # "idle") =>
        /\ pc = "done"
        /\ ret = [err |-> NewNetError(BadTime), val |-> <<>>]
        /\ conn.wrt = <<>>
        /\ conn.in = <<>> /\ rdr = <<>>

\* InspectJobs returned a NetError after its write failed.
C18_Witness ==
    /\ conn.bad /\ pc = "done" /\ cur.op = "InspectJobs"
    /\ ret.err = NewNetError(BadTime)

(***************************************************************************)
(* The records of a response                                               *)
(***************************************************************************)
\* "+OK 1", "<id> <key-count>" with a valid id and the count of the lines
\* that follow, and among these a line of the key payload that does not
\* stand right after a payload-size line, with well-formed lines before it
PayloadOutOfPlace(rp) ==
    /\ rp.first = OKCount(<<"1">>)
    /\ Len(rp.parts) >= 2
    /\ \A i \in 1..Len(rp.parts) : ~rp.parts[i].has
    /\ Len(rp.parts[1].line) = 2
    /\ IsUUID(rp.parts[1].line[1])
    /\ rp.parts[1].line[2] = Itoa(Len(rp.parts) - 1)
    /\ \E i \in 2..Len(rp.parts) :
          /\ rp.parts[i].line[1] = Key.payload
          /\ rp.parts[i - 1].line[1] # Key.payload_size
          /\ \A k \in 2..(i - 1) :
                rp.parts[k] \in {NameEntry, TtrEntry,
                                 LinePart(<<Key.payload_size, <<"1">>>>)}

\* C11: an inspected-job record with the key payload not right after the
\* key payload-size makes InspectJobs fail with ErrPayloadMustFollowSize,
\* whatever the value of the payload line.
C11_PayloadOrder ==
    (Done /\ cur.op = "InspectJobs" /\ PayloadOutOfPlace(cur.reply))
        => ret.err = ErrPayloadMustFollowSize

\* "+OK 1" and a record whose first field is not a UUID
BadIdRecord(rp) ==
    /\ rp.first = OKCount(<<"1">>)
    /\ rp.parts # <<>>
    /\ ~IsUUID(rp.parts[1].line[1])

\* C12: a job-result, leased-job or inspected-job record whose id is not
\* a valid UUID makes Run, Result, Lease and InspectJobs fail with
\* ErrMalformed.
C12_IdValidated ==
    (Done /\ cur.op \in CountedOps /\ BadIdRecord(cur.reply))
        => ret = [err |-> ErrMalformed, val |-> <<>>]

\* "+OK 1" and a leased-job record whose name is not valid
BadLeaseName(rp) ==
    /\ rp.first = OKCount(<<"1">>)
    /\ rp.parts # <<>>
    /\ Len(rp.parts[1].line) \in {3, 4}
    /\ nameFromString(rp.parts[1].line[2]).err # Nil

\* "+OK 1" and an inspected-job record with a valid id and, as its first
\* key, a name that is not valid
BadInspectName(rp) ==
    /\ rp.first = OKCount(<<"1">>)
    /\ Len(rp.parts) >= 2
    /\ Len(rp.parts[1].line) = 2
    /\ IsUUID(rp.parts[1].line[1])
    /\ rp.parts[1].line[2] = Itoa(Len(rp.parts) - 1)
    /\ Len(rp.parts[2].line) = 2
    /\ rp.parts[2].line[1] = Key.name
    /\ nameFromString(rp.parts[2].line[2]).err # Nil

\* C13: a leased-job or inspected-job record with a name that is empty,
\* too long or has a character outside the grammar makes the command fail
\* with ErrMalformed, and every job that Lease or InspectJobs returns has
\* a name of the grammar.
C13_NameValidated ==
    /\ (Done /\ cur.op = "Lease" /\ BadLeaseName(cur.reply))
          => ret.err = ErrMalformed
    /\ (Done /\ cur.op = "InspectJobs" /\ BadInspectName(cur.reply))
          => ret.err = ErrMalformed
    /\ (Done /\ cur.op \in {"Lease", "InspectJobs"} /\ ret.err = Nil) =>
          \A i \in 1..Len(ret.val) : nameFromString(ret.val[i].Name).err = Nil

\* The stream ended before the LF of the first line
FirstLineCut == Len(Flatten(cur.chunks)) < Len(cur.reply.first) + termLen

\* "+OK 1", then complete well-formed lines of a record that has a line
\* more, and the beginning of that line: the record line of a job-result
\* or leased-job record, the first line or a key line of an inspected job
RecordLineCut(op, rp) ==
    /\ rp.first = OKCount(<<"1">>)
    /\ IndexOf(rp.tail, LF) = 0
    /\ IF rp.parts = <<>> THEN TRUE
       ELSE /\ op = "InspectJobs"
            /\ Len(rp.parts[1].line) = 2
            /\ IsUUID(rp.parts[1].line[1])
            /\ rp.parts[1].line[2] = Itoa(Len(rp.parts))
            /\ \A i \in 2..Len(rp.parts) :
                  rp.parts[i] \in {NameEntry, TtrEntry}

\* C19: when the stream ends before a line is complete, be it the first
\* line or a line of a record, the command returns a NetError.
C19_ReadFailure ==
    (Done /\ conn.eof
        /\ \/ FirstLineCut
           \/ /\ cur.op \in CountedOps
              /\ Flatten(cur.chunks) = Render(cur.reply)
              /\ RecordLineCut(cur.op, cur.reply))
        => ret.err.kind = "NetError"

\* C20: when Run, Result, Lease or InspectJobs returns an error its value
\* is nil, and when Run, Result or Lease returns no error its value is
\* not nil.
C20_NilOnError ==
    (pc = "done" /\ cur.op \in CountedOps) =>
        /\ ret.err # Nil => ret.val = <<>>
        /\ (ret.err = Nil /\ cur.op # "InspectJobs") => Len(ret.val) = 1

\* Lease read the id, the name and the length of a record, found the
\* block shorter than declared, and returned ErrMalformed and nil.
C20_Witness ==
    /\ Done /\ cur.op = "Lease"
    /\ cur.reply = LeaseReplyOf(<<"1">>, <<ID1, NameJ1, TTR60, <<"2">>>>,
                                <<"a">>, crnl, <<>>)
    /\ ret = [err |-> ErrMalformed, val |-> <<>>]

(***************************************************************************)
(* The line terminator                                                     *)
(***************************************************************************)
\* The bytes of the reply up to and including its first LF
LineRead(rp) == Take(Render(rp), IndexOf(Render(rp), LF))

\* The line does not end with CR LF
BareLf(line) == Len(line) < termLen \/ line[Len(line) - 1] # CR

\* The bytes of the line before its terminator
BeforeTerm(line) == Take(line, Len(line) - termLen)

\* C21: a first line that ends with a LF without a CR before it makes
\* every command return ErrMalformed, and a line that ends with CR LF is
\* taken as exactly the bytes before the CR LF: "+OK" is the success of
\* the simple commands, and an error line gives its code and its text
\* byte for byte.
C21_LineTerminator ==
    Done =>
        /\ BareLf(LineRead(cur.reply)) => ret.err = ErrMalformed
        /\ (~BareLf(LineRead(cur.reply)) /\ cur.op \in OkOps
              /\ BeforeTerm(LineRead(cur.reply)) = OKLine) => ret.err = Nil
        /\ (~BareLf(LineRead(cur.reply))
              /\ WellFormedErr(BeforeTerm(LineRead(cur.reply)))
              /\ Len(BeforeTerm(LineRead(cur.reply))) >= 5)
              => ret.err
                    = NewResponseError(CodeOf(BeforeTerm(LineRead(cur.reply))),
                                       TextOf(BeforeTerm(LineRead(cur.reply))))

\* Add read the line "+OKx" LF and returned ErrMalformed.
C21_Witness ==
    /\ Done /\ cur.op = "Add"
    /\ cur.reply.first = OKLine \o <<"x", LF>>
    /\ ret.err = ErrMalformed

\* The kinds of the errors that the commands are documented to return
DocumentedKinds == {"nil", "NetError", "ResponseError", "ErrMalformed"}

\* C22: every error returned by a command is nil, a NetError, a
\* ResponseError or ErrMalformed, or for InspectJobs
\* ErrPayloadMustFollowSize; no error of the number parser is returned.
C22_ErrorKinds ==
    Done =>
        \/ ret.err.kind \in DocumentedKinds
        \/ cur.op = "InspectJobs" /\ ret.err = ErrPayloadMustFollowSize

(***************************************************************************)
(* The records of a reply to InspectJobs, as the server wrote them         *)
(***************************************************************************)
\* The positions of the record lines "<id> <key-count>" among the parts
Heads(parts) ==
    {i \in 1..Len(parts) :
        /\ ~parts[i].has /\ Len(parts[i].line) = 2
        /\ idFromString(parts[i].line[1]).err = Nil}

\* The key lines of the record whose record line is part i
EntriesOf(parts, i) ==
    LET next == {h \in Heads(parts) : h > i}
        last == IF next = {} THEN Len(parts)
                ELSE (CHOOSE h \in next : \A g \in next : h <= g) - 1
    IN  SubSeq(parts, i + 1, last)

\* The key count that the record line declares
DeclaredCount(parts, i) == parts[i].line[2]

\* The keys whose line is "<key> <value>"
PlainKeys ==
    {Key.name, Key.ttr, Key.ttl, Key.max_attempts, Key.attempts,
     Key.max_fails, Key.fails, Key.priority, Key.state, Key.created}

\* The value is one that the key's field can hold, as the wire writes it
ValidValue(key, value) ==
    IF key = Key.name THEN nameFromString(value).err = Nil
    ELSE IF key = Key.ttr THEN ~ParseUint(value, 32).err
    ELSE IF key \in {Key.ttl, Key.payload_size} THEN ~ParseUint(value, 64).err
    ELSE IF key = Key.priority THEN ~ParseInt(value, 32).err
    ELSE IF key = Key.created THEN TimeParseOk(value)
    ELSE ~ParseUint(value, 8).err

\* A well-formed key line, or "payload-size <n>" with its marker and block
GoodEntry(p) ==
    IF p.has
    THEN /\ WellFormedBlock(p) /\ p.marker = payloadKey
         /\ p.line = <<Key.payload_size, Itoa(Len(p.block))>>
    ELSE /\ Len(p.line) = 2 /\ p.line[1] \in PlainKeys
         /\ ValidValue(p.line[1], p.line[2])

\* The reply is a count line with the number of records, then records of
\* well-formed key lines with no key twice, and nothing more
GoodRecords(rp) ==
    /\ rp.parts # <<>> /\ 1 \in Heads(rp.parts) /\ rp.tail = <<>>
    /\ rp.first = OKCount(Itoa(Cardinality(Heads(rp.parts))))
    /\ \A i \in 1..Len(rp.parts) :
          i \notin Heads(rp.parts) => GoodEntry(rp.parts[i])
    /\ \A i \in Heads(rp.parts) :
          LET e == EntriesOf(rp.parts, i)
          IN  \A a, b \in 1..Len(e) : e[a].line[1] = e[b].line[1] => a = b

HasPayload(rp) == \E i \in 1..Len(rp.parts) : rp.parts[i].has

\* The whole response arrives in one read
OneRead == Len(cur.chunks) = 1

\* The reads deliver the whole response
Delivered == Flatten(cur.chunks) = Render(cur.reply)

\* C23 as stated: a record that declares key-count k holds the
\* "payload-size"/"payload" pair and k-1 other key lines, the pair counting
\* as one key; InspectJobs decodes such records and returns their jobs.
C23_PairIsOneKey ==
    (/\ Done /\ cur.op = "InspectJobs" /\ OneRead
     /\ GoodRecords(cur.reply) /\ HasPayload(cur.reply)
     /\ \A i \in Heads(cur.reply.parts) :
           DeclaredCount(cur.reply.parts, i)
               = Itoa(Len(EntriesOf(cur.reply.parts, i))))
        => /\ ret.err = Nil
           /\ ReturnedIDs(ret.val) = RecordIDs(cur.reply.parts)

\* The declared count is the number of lines of the record, "payload-size"
\* and "payload" being two, or one less when the pair ends the record
FitsTwoKeys(parts, i) ==
    LET e == EntriesOf(parts, i)
    IN  \/ DeclaredCount(parts, i) = Itoa(KeyLines(e))
        \/ /\ e # <<>> /\ e[Len(e)].has
           /\ DeclaredCount(parts, i) = Itoa(KeyLines(e) - 1)

\* C23 amended: the "payload-size" line and the "payload" line count as two
\* keys toward key-count.  Records with a payload are decoded only when
\* every declared count fits that, and when it does and the response
\* arrives in one read, InspectJobs returns the jobs of the records.
C23_PairIsTwoKeys ==
    (/\ Done /\ cur.op = "InspectJobs"
     /\ GoodRecords(cur.reply) /\ HasPayload(cur.reply))
        => /\ ret.err = Nil =>
                 \A i \in Heads(cur.reply.parts) :
                     FitsTwoKeys(cur.reply.parts, i)
           /\ (OneRead /\ \A i \in Heads(cur.reply.parts) :
                              FitsTwoKeys(cur.reply.parts, i))
                 => /\ ret.err = Nil
                    /\ ReturnedIDs(ret.val) = RecordIDs(cur.reply.parts)

\* A record with a payload between two other keys, and a record after it
C23_Witness ==
    /\ Done /\ cur.op = "InspectJobs" /\ OneRead
    /\ cur.reply.first = OKCount(<<"2">>)
    /\ GoodRecords(cur.reply)
    /\ DeclaredCount(cur.reply.parts, 1) = <<"4">>
    /\ cur.reply.parts[3].has /\ ~cur.reply.parts[4].has
    /\ ret.err = Nil
    /\ Len(ret.val) = 2 /\ ret.val[1].Payload = <<"a">>
    /\ ret.val[2].ID = ID1

\* The keys that parseInspectedJob recognises
RecognizedKeys == PlainKeys \cup {Key.payload, Key.payload_size}

\* A key line that is not well-formed: not two fields, an unknown key, a
\* number that does not parse or lies outside the range of its field, or
\* a timestamp that does not parse
BadKeyLine(p) ==
    /\ ~p.has
    /\ \/ Len(p.line) # 2
       \/ p.line[1] \notin RecognizedKeys
       \/ /\ p.line[1] \in NumberKeys \cup {Key.created}
          /\ ~ValidValue(p.line[1], p.line[2])

\* The reply is "+OK 1" and one record whose last key line is not
\* well-formed, after well-formed ones
BadKeyRecord(rp) ==
    /\ rp.first = OKCount(<<"1">>) /\ rp.tail = <<>>
    /\ Len(rp.parts) >= 2 /\ Heads(rp.parts) = {1}
    /\ DeclaredCount(rp.parts, 1) = Itoa(Len(rp.parts) - 1)
    /\ \A i \in 2..(Len(rp.parts) - 1) :
          ~rp.parts[i].has /\ GoodEntry(rp.parts[i])
    /\ BadKeyLine(LastPart(rp))

\* C24: a key line with an unknown key, a key line that is not
\* "<key> <value>", or a value that fails the parse of its key makes
\* InspectJobs fail with ErrMalformed.
C24_BadKeyLine ==
    (Done /\ cur.op = "InspectJobs" /\ BadKeyRecord(cur.reply))
        => ret.err = ErrMalformed /\ ret.val = <<>>

\* The number that a decimal text denotes
Denoted(value) ==
    IF value # <<>> /\ Head(value) = "-"
    THEN Negate(Magnitude(StripZeros(Tail(value))))
    ELSE Magnitude(StripZeros(value))

\* The job with the value of one key line put in the field of its key
WithEntry(j, p) ==
    LET key == p.line[1]
        value == p.line[2]
    IN  IF p.has THEN [j EXCEPT !.Payload = p.block]
        ELSE IF key = Key.name THEN [j EXCEPT !.Name = value]
        ELSE IF key = Key.ttr THEN [j EXCEPT !.TTR = Denoted(value)]
        ELSE IF key = Key.ttl THEN [j EXCEPT !.TTL = Denoted(value)]
        ELSE IF key = Key.max_attempts
        THEN [j EXCEPT !.MaxAttempts = Denoted(value)]
        ELSE IF key = Key.attempts THEN [j EXCEPT !.Attempts = Denoted(value)]
        ELSE IF key = Key.max_fails THEN [j EXCEPT !.MaxFails = Denoted(value)]
        ELSE IF key = Key.fails THEN [j EXCEPT !.Fails = Denoted(value)]
        ELSE IF key = Key.priority THEN [j EXCEPT !.Priority = Denoted(value)]
        ELSE IF key = Key.state THEN [j EXCEPT !.State = Denoted(value)]
        ELSE [j EXCEPT !.Created = TimeOf(value)]

RECURSIVE WithEntries(_, _)
WithEntries(j, entries) ==
    IF entries = <<>> THEN j
    ELSE WithEntries(WithEntry(j, Head(entries)), Tail(entries))

\* The record lines of a reply, in stream order
HeadSeq(parts) ==
    LET idx == [i \in 1..Len(parts) |-> i]
    IN  SelectSeq(idx, LAMBDA i : i \in Heads(parts))

\* The jobs that the records of a reply describe, in stream order
JobsOf(rp) ==
    [n \in 1..Len(HeadSeq(rp.parts)) |->
        WithEntries([InspectedJobZero EXCEPT
                        !.ID = rp.parts[HeadSeq(rp.parts)[n]].line[1]],
                    EntriesOf(rp.parts, HeadSeq(rp.parts)[n]))]

\* Every record declares the number of its key lines
CountsFit(rp) ==
    \A i \in Heads(rp.parts) :
        DeclaredCount(rp.parts, i) = Itoa(KeyLines(EntriesOf(rp.parts, i)))

\* C25: on a well-formed response InspectJobs returns one job per record,
\* in stream order, with the id of the record line and the value of every
\* key of the record in its field, in whatever order the keys come; the
\* fields of absent keys are zero.
C25_InspectedJobs ==
    (Done /\ cur.op = "InspectJobs" /\ Delivered
          /\ GoodRecords(cur.reply) /\ CountsFit(cur.reply))
        => ret.err = Nil /\ ret.val = JobsOf(cur.reply)

\* The reply is well-formed for the command
WellFormedFor(op, rp) ==
    IF op \in {"Run", "Result"}
    THEN ResultRecord(rp) /\ idFromString(rp.parts[1].line[1]).err = Nil
    ELSE IF op = "Lease" THEN LeaseRecord(rp)
    ELSE GoodRecords(rp) /\ CountsFit(rp)

\* The outcome of the command when the whole response arrives in one read
InOneRead(op, rp) ==
    Decode(op, [buf |-> <<>>, in |-> <<Render(rp)>>, eof |-> TRUE])

\* C29: however the transport splits a well-formed response into reads,
\* Run, Result, Lease and InspectJobs return the success that they return
\* when the whole response arrives in one read.
C29_DeliveryIndependent ==
    (/\ Done /\ cur.op \in CountedOps /\ Delivered
     /\ WellFormedFor(cur.op, cur.reply)
     /\ InOneRead(cur.op, cur.reply).err = Nil)
        => /\ ret.err = Nil
           /\ ret.val = InOneRead(cur.op, cur.reply).val

\* C26: after a Close of the client, another Close returns an error.
C26_SecondClose ==
    [][(pc = "idle" /\ pc' = "done" /\ cur'.op = "Close" /\ conn.closed)
          => ret'.err # Nil]_vars

\* A second Close has returned
C26_Witness ==
    pc = "done" /\ cur.op = "Close" /\ conn.closed /\ ret.err = ErrNetClosing

\* The commands that read one response and nothing behind it
SeqOps == OkOps \cup {"Run", "Result", "Lease"}

\* The reply is a well-formed response to the command
SeqWellFormed(op, rp) ==
    \/ WellFormedErr(rp.first) /\ rp.parts = <<>>
    \/ op \in OkOps /\ rp.first = OKLine /\ rp.parts = <<>>
    \/ /\ op \in {"Run", "Result"} /\ OneBlockRecord(rp)
       /\ WellFormedBlock(rp.parts[1]) /\ Len(rp.parts[1].line) = 3
       /\ idFromString(rp.parts[1].line[1]).err = Nil
       /\ rp.parts[1].line[2] \in {<<"0">>, <<"1">>}
    \/ /\ op = "Lease" /\ OneBlockRecord(rp)
       /\ WellFormedBlock(rp.parts[1]) /\ Len(rp.parts[1].line) = 3
       /\ idFromString(rp.parts[1].line[1]).err = Nil
       /\ nameFromString(rp.parts[1].line[2]).err = Nil

\* The command returned what its response carries
Carried(op, rp, r) ==
    IF IsErrLine(rp.first)
    THEN r = [err |-> NewResponseError(CodeOf(rp.first), TextOf(rp.first)),
              val |-> <<>>]
    ELSE IF op \in OkOps THEN r = [err |-> Nil, val |-> <<>>]
    ELSE IF op \in {"Run", "Result"}
    THEN r = [err |-> Nil,
              val |-> <<[Success |-> rp.parts[1].line[2] = <<"1">>,
                         Result |-> rp.parts[1].block]>>]
    ELSE /\ r.err = Nil /\ Len(r.val) = 1
         /\ r.val[1].ID = rp.parts[1].line[1]
         /\ r.val[1].Name = rp.parts[1].line[2]
         /\ r.val[1].Payload = rp.parts[1].block

\* C28: in a sequence of commands whose responses are well-formed and
\* stand one behind the other in the stream, every command returns the
\* value or the server error of its own response and leaves the bytes
\* behind its response unread.
C28_OwnResponse ==
    (Done /\ cur.op \in SeqOps /\ SeqWellFormed(cur.op, cur.reply)) =>
        /\ Carried(cur.op, cur.reply, ret)
        /\ Unread = cur.reply.tail

\* The server has sent a complete well-formed response to InspectJobs and
\* keeps the connection open
InspectAnswered ==
    /\ pc # "idle" /\ ~conn.bad /\ cur.op = "InspectJobs"
    /\ Delivered /\ ~cur.eof
    /\ GoodRecords(cur.reply) /\ CountsFit(cur.reply)

\* C27: once the server has sent a complete well-formed response to
\* InspectJobs, the command returns, whether or not the server sends
\* another byte or closes the connection.
C27_Returns == InspectAnswered ~> pc = "done"

\* The call of thread t has written its command and has not returned
InCall(t) == pc[t] = "written"

\* C30: the calls of two threads on one client do not interleave, no
\* thread writes its command while the call of the other goes on, and
\* every call returns the value or the server error of the response to
\* its own command.
C30_NoInterleaving ==
    /\ ~(InCall(1) /\ InCall(2))
    /\ \A t \in Threads :
          pc[t] = "done" => Carried("Result", cur[t].reply, ret[t])

(***************************************************************************)
(* A record line with a negative key count                                 *)
(***************************************************************************)

\* The number is below zero
Negative(n) == n.big = -1 \/ n.v < 0

\* The record line of part i is "<id> <count>" with a count below zero
NegativeCount(parts, i) ==
    /\ i \in Heads(parts)
    /\ ~Atoi(DeclaredCount(parts, i)).err
    /\ Negative(Atoi(DeclaredCount(parts, i)).n)

\* C36: InspectJobs rejects a record whose record line declares a negative
\* key count with ErrMalformed and returns no job decoded from such a line.
C36_NegativeKeyCount ==
    (Done /\ cur.op = "InspectJobs" /\ Delivered
          /\ cur.reply.first = OKCount(<<"1">>)
          /\ cur.reply.parts # <<>> /\ NegativeCount(cur.reply.parts, 1))
        => ret.err = ErrMalformed /\ ret.val = <<>>

(***************************************************************************)
(* The counters and durations of returned jobs                             *)
(***************************************************************************)

\* The counters and durations of an InspectedJob
Counters(j) ==
    <<j.TTR, j.TTL, j.MaxAttempts, j.Attempts, j.MaxFails, j.Fails, j.State>>

\* C35: every InspectedJob that InspectJobs returns has TTR, TTL,
\* MaxAttempts, Attempts, MaxFails, Fails and State at or above zero and, on
\* a well-formed response, equal to the decimal values that the server sent,
\* and every LeasedJob that Lease returns has a TTR at or above zero.
C35_NonNegative ==
    (Done /\ ret.err = Nil) =>
        /\ cur.op = "Lease" =>
              \A i \in 1..Len(ret.val) : ~Negative(ret.val[i].TTR)
        /\ cur.op = "InspectJobs" =>
              \A i \in 1..Len(ret.val) :
                  \A f \in 1..7 : ~Negative(Counters(ret.val[i])[f])
        /\ (cur.op = "InspectJobs" /\ Delivered /\ OneRead
               /\ GoodRecords(cur.reply) /\ CountsFit(cur.reply)) =>
              /\ Len(ret.val) = Len(JobsOf(cur.reply))
              /\ \A i \in 1..Len(ret.val) :
                    Counters(ret.val[i]) = Counters(JobsOf(cur.reply)[i])

(***************************************************************************)
(* The key lines read for one record                                       *)
(***************************************************************************)

\* The record whose record line is part i has no more key lines, the
\* "payload-size" line and the "payload" line with its block counted as one
\* each, than its record line declares
WithinCount(parts, i) ==
    Less(KeyLines(EntriesOf(parts, i)) - 1, Atoi(DeclaredCount(parts, i)).n)

\* C34: when InspectJobs decodes the records of a response, it reads for no
\* record more key entries than the record line declares, the "payload"
\* line and its block after a "payload-size" line in the last counted place
\* included.
C34_WithinKeyCount ==
    (Done /\ cur.op = "InspectJobs" /\ Delivered /\ ret.err = Nil
          /\ GoodRecords(cur.reply))
        => \A i \in Heads(cur.reply.parts) :
              ~NegativeCount(cur.reply.parts, i)
                  => WithinCount(cur.reply.parts, i)

(***************************************************************************)
(* The write of a command                                                  *)
(***************************************************************************)

\* The bytes of a command, from its arguments
BytesOf(op, args) ==
    IF op = "Add" THEN AddBytes(args)
    ELSE IF op = "Run" THEN RunBytes(args)
    ELSE IF op = "Schedule" THEN ScheduleBytes(args)
    ELSE IF op = "Result" THEN ResultBytes(args)
    ELSE IF op = "Lease" THEN LeaseBytes(args)
    ELSE IF op = "Complete" THEN CompleteBytes(args)
    ELSE IF op = "Fail" THEN FailBytes(args)
    ELSE IF op = "Delete" THEN DeleteBytes(args)
    ELSE InspectJobsBytes(args)

\* The step is the call of a command
Called == pc = "idle" /\ pc' # "idle" /\ cur'.op # "Close"

\* C33: a command writes once, the bytes of its arguments, whatever the
\* response is and whatever was called before; a command whose write fails
\* reads nothing; nothing else writes.
C33_OneWrite ==
    [][/\ (Called /\ ~conn.bad) =>
              conn'.wrt = Append(conn.wrt, BytesOf(cur'.op, cur'.args))
       /\ (Called /\ conn.bad) =>
              conn'.wrt = conn.wrt /\ rdr' = rdr /\ conn'.in = conn.in
       /\ ~Called => conn'.wrt = conn.wrt]_vars

\* A second command has written its bytes and failed on a response that is
\* no response
C33_Witness ==
    /\ pc = "done" /\ ~conn.bad /\ cur.op = "Run" /\ cur.reply = NoReply
    /\ ret.err = ErrMalformed
    /\ conn.wrt = <<LeaseBytes(LeaseArgs1), RunBytes(FgJob1)>>

(***************************************************************************)
(* The read position after a failed decoding                               *)
(***************************************************************************)

\* The stream that the called command reads from: what was unread and what
\* the server sends to it
ToRead == Unread \o Flatten(cur'.chunks)

\* The place of the first LF of s, or 0
FirstLf(s) ==
    LET at == {i \in 1..Len(s) : s[i] = LF}
    IN  IF at = {} THEN 0 ELSE CHOOSE i \in at : \A j \in at : i <= j

\* The first line of s with its terminator, and what stands behind it
LineOf(s) == Take(s, FirstLf(s))
BehindLine(s) == Drop(s, FirstLf(s))

\* The command does not take the line for the first line of a response
\* that it reads on
FirstRejected(op, line) ==
    IF op \in OkOps THEN line # OKLine \o crnl
    ELSE IF op = "InspectJobs"
    THEN \A n \in {<<"0">>, <<"1">>, <<"2">>} : line # OKCount(n) \o crnl
    ELSE line # OKCount(<<"1">>) \o crnl

\* The number of fields of the record line that the command reads
RecordFields(op) == IF op = "Lease" THEN 4 ELSE 3

\* The bytes of the block and its terminator that the last field of a
\* record line declares, 0 when it declares none
BlockBytes(line) ==
    LET split == Split(BeforeTerm(line))
        n == ParseUint(split[Len(split)], 64)
    IN  IF n.err \/ n.n.big # 0 THEN 0 ELSE n.n.v + termLen

\* The reply has a reply count other than 1 and a record behind it
CountOff(rp) ==
    rp.first \in {OKCount(<<"0">>), OKCount(<<"2">>)} /\ Len(rp.parts) = 1

\* The bytes of the reply behind its first line
RecordBytes(rp) == RenderParts(rp.parts) \o rp.tail

\* A command that failed stopped behind the first line when it rejected
\* that line, behind the record line when it rejected that one, and in or
\* behind the block otherwise
StopsIn(op, all, left) ==
    /\ FirstLf(all) > 0
    /\ IF FirstRejected(op, LineOf(all))
       THEN left = BehindLine(all)
       ELSE \A rest \in {BehindLine(all)} :
               /\ FirstLf(rest) > 0
               /\ IF Len(Split(BeforeTerm(LineOf(rest)))) # RecordFields(op)
                  THEN left = BehindLine(rest)
                  ELSE \E k \in 0..BlockBytes(LineOf(rest)) :
                          left = Drop(BehindLine(rest), k)

StopsAtFailure ==
    (Called /\ ~conn.bad /\ pc' = "done" /\ ret'.err # Nil
        /\ cur'.op # "InspectJobs") =>
        \A op \in {cur'.op}, all \in {ToRead}, left \in {Unread'} :
            StopsIn(op, all, left)

\* InspectJobs stopped behind a first line that it rejected
InspectStops ==
    (Called /\ ~conn.bad /\ cur'.op = "InspectJobs") =>
        \A all \in {ToRead}, left \in {Unread'} :
            (FirstLf(all) > 0 /\ FirstRejected("InspectJobs", LineOf(all)))
                => pc' = "done" /\ ret'.err # Nil /\ left = BehindLine(all)

\* Run, Result and Lease that are sent a reply count other than 1 return
\* ErrMalformed and leave the record unread
LeavesRecord ==
    (Called /\ ~conn.bad /\ Unread = <<>>
        /\ cur'.op \in {"Run", "Result", "Lease"}) =>
        \A rp \in {cur'.reply}, left \in {Unread'} :
            CountOff(rp) =>
                /\ pc' = "done" /\ ret'.err = ErrMalformed
                /\ left = RecordBytes(rp)

\* The command called next takes the record line that was left unread for
\* the first line of its response
DecodesRecord ==
    (Called /\ ~conn.bad /\ cur.op \in {"Run", "Result", "Lease"}
        /\ CountOff(cur.reply) /\ Unread = RecordBytes(cur.reply)) =>
        /\ pc' = "done" /\ ret'.err = ErrMalformed /\ ret'.val = <<>>
        /\ \A sent \in {cur'.chunks}, left \in {Unread'} :
              left = cur.reply.parts[1].block \o cur.reply.parts[1].term
                        \o cur.reply.tail \o Flatten(sent)

ClosedWhileBlocked == Done /\ conn.eof /\ ~cur.eof

\* The part of the response that the command was waiting for: the rest of
\* the first line, the rest of a record line, or bytes of a block or of
\* its terminator
WaitedFor ==
    \/ FirstLineCut
    \/ /\ cur.op \in CountedOps /\ Delivered
       /\ \/ RecordLineCut(cur.op, cur.reply)
          \/ Truncated(cur.reply)

\* C31: a command that is blocked in a read for its response when the
\* connection is closed returns, and returns a NetError, whether it waited
\* for the first line, a record line, the bytes of a block or the block's
\* terminator.
C31_ClosedWhileBlocked ==
    (ClosedWhileBlocked /\ WaitedFor) =>
        ret.err.kind = "NetError" /\ ret.val = <<>>

====
